---- MODULE Spec2Model ----
(***************************************************************************)
(* Model of the dependency-graph tool (src/main_v5.py): the BFS graph       *)
(* builder build_real_graph with its collaborators get_package_info,        *)
(* fetch_package and get_deps_from_wheel, and the recursive tree printer    *)
(* print_tree_from_node / _print_tree_helper, as main() runs them in the    *)
(* real-package mode (Spec); main from the query for a node on, in both     *)
(* modes: read_test_repo, build_subgraph_from_node, build_reverse_graph,    *)
(* the reverse traversal, the trees and generate_graphviz_code (QuerySpec); *)
(* get_deps_from_wheel applied to a set of archives (ParseSpec); and        *)
(* get_package_info applied to a set of registry answers (ResolveSpec).     *)
(*                                                                          *)
(* Python strings are modelled as sequences of one-character strings, so    *)
(* that lower(), strip(), split() and the regular-expression split are      *)
(* computed character by character.                                         *)
(***************************************************************************)
EXTENDS Integers, Sequences, FiniteSets, TLC

(***************************************************************************)
(* Bounds of the model.                                                     *)
(***************************************************************************)
\* largest max_depth a build is started with
MaxDepthBound == 2

(***************************************************************************)
(* Strings.                                                                 *)
(***************************************************************************)
Range(s) == {s[i] : i \in DOMAIN s}

UpperLetters ==
    <<"A","B","C","D","E","F","G","H","I","J","K","L","M",
      "N","O","P","Q","R","S","T","U","V","W","X","Y","Z">>

LowerLetters ==
    <<"a","b","c","d","e","f","g","h","i","j","k","l","m",
      "n","o","p","q","r","s","t","u","v","w","x","y","z">>

\* str.lower() on one character
LowerChar(c) ==
    IF \E i \in DOMAIN UpperLetters : UpperLetters[i] = c
    THEN LowerLetters[CHOOSE i \in DOMAIN UpperLetters : UpperLetters[i] = c]
    ELSE c

\* str.lower()
Lower(s) == [i \in DOMAIN s |-> LowerChar(s[i])]

\* the characters str.strip() removes (those the model's inputs use)
Whitespace == {" ", "\t"}

\* str.strip()
Strip(s) ==
    LET keep == {i \in DOMAIN s : s[i] \notin Whitespace}
    IN  IF keep = {} THEN <<>>
        ELSE LET first == CHOOSE i \in keep : \A j \in keep : i <= j
                 last  == CHOOSE i \in keep : \A j \in keep : j <= i
             IN  SubSeq(s, first, last)

\* s[n:]
DropFirst(s, n) == SubSeq(s, n + 1, Len(s))

\* s.startswith(p)
StartsWith(s, p) == Len(s) >= Len(p) /\ SubSeq(s, 1, Len(p)) = p

\* s.endswith(p)
EndsWith(s, p) == Len(s) >= Len(p) /\ SubSeq(s, Len(s) - Len(p) + 1, Len(s)) = p

\* sub in s
Contains(s, sub) ==
    \E i \in 1..(Len(s) - Len(sub) + 1) : SubSeq(s, i, i + Len(sub) - 1) = sub

\* index of the first character of s that is in the set cs, 0 when there is none
FirstIndexOf(s, cs) ==
    LET hits == {i \in DOMAIN s : s[i] \in cs}
    IN  IF hits = {} THEN 0 ELSE CHOOSE i \in hits : \A j \in hits : i <= j

\* s.split(';', 1): one or two parts
SplitOnce(s, c) ==
    LET k == FirstIndexOf(s, {c})
    IN  IF k = 0 THEN <<s>>
        ELSE <<SubSeq(s, 1, k - 1), SubSeq(s, k + 1, Len(s))>>

\* re.split(r'[...]', s)[0]: the text before the first character of the class
SplitHead(s, cs) ==
    LET k == FirstIndexOf(s, cs)
    IN  IF k = 0 THEN s ELSE SubSeq(s, 1, k - 1)

(***************************************************************************)
(* get_deps_from_wheel.                                                     *)
(***************************************************************************)
RequiresDist ==
    <<"R","e","q","u","i","r","e","s","-","D","i","s","t",":"," ">>

MetadataSuffix == <<"M","E","T","A","D","A","T","A">>

ExtraEquals == <<"e","x","t","r","a"," ","=","=">>

\* the markers of the default feature set: "main", "default", "" and ''
DefaultMarkers ==
    { <<"\"","m","a","i","n","\"">>,
      <<"\"","d","e","f","a","u","l","t","\"">>,
      <<"\"","\"">>,
      <<"'","'">> }

\* the character class of the regular expression [<>=!~\[\] ]
NameDelimiters == {"<", ">", "=", "!", "~", "[", "]", " "}

\* line[14:].strip()
DepLine(line) == Strip(DropFirst(line, 14))

\* parts[0].strip()
DepSpec(line) == Strip(SplitOnce(DepLine(line), ";")[1])

\* parts[1].strip() if len(parts) > 1 else ""
Condition(line) ==
    LET parts == SplitOnce(DepLine(line), ";")
    IN  IF Len(parts) > 1 THEN Strip(parts[2]) ELSE <<>>

\* the declaration is gated by a non-default extra: the `continue` of the loop
IsOptionalExtra(condition) ==
    /\ Contains(condition, ExtraEquals)
    /\ ~ \E e \in DefaultMarkers : Contains(condition, e)

\* re.split(r'[<>=!~\[\] ]', dep_spec)[0].strip().lower()
DepName(dep_spec) == Lower(Strip(SplitHead(dep_spec, NameDelimiters)))

\* variant: `if dep_name:` without the test `dep_name not in deps`
AddDep_NoDedupe(deps, line) ==
    IF ~ StartsWith(line, RequiresDist) THEN deps
    ELSE IF IsOptionalExtra(Condition(line)) THEN deps
    ELSE LET dep_name == DepName(DepSpec(line))
         IN  IF dep_name # <<>> THEN Append(deps, dep_name) ELSE deps

\* one iteration of the loop over content.splitlines()
AddDep(deps, line) ==
    IF ~ StartsWith(line, RequiresDist) THEN deps
    ELSE IF IsOptionalExtra(Condition(line)) THEN deps
    ELSE LET dep_name == DepName(DepSpec(line))
         IN  IF dep_name # <<>> /\ dep_name \notin Range(deps)
             THEN Append(deps, dep_name)
             ELSE deps

RECURSIVE ScanLines(_, _)
\* the loop over content.splitlines(), deps being the list built so far
ScanLines(lines, deps) ==
    IF lines = <<>> THEN deps
    ELSE ScanLines(Tail(lines), AddDep(deps, Head(lines)))

\* variant: the legacy PKG-INFO entry is accepted as well
MetadataEntry_OrPkgInfo(entries) ==
    LET hits == {i \in DOMAIN entries :
                    \/ EndsWith(entries[i].name, MetadataSuffix)
                    \/ EndsWith(entries[i].name, <<"P","K","G","-","I","N","F","O">>)}
    IN  IF hits = {} THEN 0 ELSE CHOOSE i \in hits : \A j \in hits : i <= j

\* position of the first archive entry whose name ends in METADATA, 0 if none
MetadataEntry(entries) ==
    LET hits == {i \in DOMAIN entries : EndsWith(entries[i].name, MetadataSuffix)}
    IN  IF hits = {} THEN 0 ELSE CHOOSE i \in hits : \A j \in hits : i <= j

\* wheel_data is [zip |-> BOOLEAN, entries |-> sequence of [name, lines]]:
\* bytes that are no zip archive make zipfile.ZipFile raise, which is caught
get_deps_from_wheel(wheel_data) ==
    IF ~ wheel_data.zip THEN <<>>
    ELSE LET k == MetadataEntry(wheel_data.entries)
         IN  IF k = 0 THEN <<>>
             ELSE ScanLines(wheel_data.entries[k].lines, <<>>)

(***************************************************************************)
(* The registry and the network: what get_package_info and fetch_package    *)
(* can receive.  The registry answers every request on its own, so each     *)
(* call draws its answer from the sets below.                               *)
(***************************************************************************)
\* version=None
NoVersion == "None"

WheelSuffix == <<".","w","h","l">>

WheelName ==
    <<"p","k","g","-","1",".","0","-","p","y","3","-","n","o","n","e","-","a","n","y",".","w","h","l">>

SdistName == <<"p","k","g","-","1",".","0",".","t","a","r",".","g","z">>

ZipSdistName == <<"p","k","g","-","1",".","0",".","z","i","p">>

MetadataName ==
    <<"p","k","g","-","1",".","0",".","d","i","s","t","-","i","n","f","o","/","M","E","T","A","D","A","T","A">>

RecordName ==
    <<"p","k","g","-","1",".","0",".","d","i","s","t","-","i","n","f","o","/","R","E","C","O","R","D">>

PkgInfoName == <<"p","k","g","-","1",".","0","/","P","K","G","-","I","N","F","O">>

Req(spec) == RequiresDist \o spec

HeaderLines ==
    << <<"M","e","t","a","d","a","t","a","-","V","e","r","s","i","o","n",":"," ","2",".","1">>,
       <<"N","a","m","e",":"," ","p","k","g">> >>

\* a wheel whose METADATA holds the header lines and then `lines`
Wheel(lines) ==
    [empty |-> FALSE, zip |-> TRUE,
     entries |-> << [name |-> RecordName, lines |-> <<>>],
                    [name |-> MetadataName, lines |-> HeaderLines \o lines] >>]

\* the downloadable artifacts, by URL
Archives ==
    [u \in {"u_none", "u_b", "u_bc", "u_cb", "u_a", "u_ab", "u_c", "u_d",
            "u_garbage", "u_nometa", "u_empty"} |->
        CASE u = "u_none" -> Wheel(<<>>)
          [] u = "u_b"    -> Wheel(<< Req(<<"b">>) >>)
          [] u = "u_bc"   ->
               Wheel(<< Req(<<"B",">","=","1",".","0">>),
                        Req(<<"c","[","x","]",";"," ","e","x","t","r","a"," ","=","="," ","\"","d","e","v","\"">>),
                        Req(<<"C"," ","(",">","=","2",")"," ",";"," ","p","y","t","h","o","n","_","v","e","r","s","i","o","n"," ","<"," ","\"","3","\"">>),
                        Req(<<"b">>) >>)
          [] u = "u_cb"   ->
               Wheel(<< Req(<<" ","c"," ">>),
                        Req(<<"B","[","s","]","~","=","2">>) >>)
          [] u = "u_a"    -> Wheel(<< Req(<<"A">>) >>)
          [] u = "u_ab"   -> Wheel(<< Req(<<"a">>), Req(<<"b">>) >>)
          [] u = "u_c"    -> Wheel(<< Req(<<"c">>) >>)
          [] u = "u_d"    ->
               Wheel(<< Req(<<"d",";"," ","e","x","t","r","a"," ","=","="," ","\"","\"">>) >>)
          [] u = "u_garbage" -> [empty |-> FALSE, zip |-> FALSE, entries |-> <<>>]
          [] u = "u_nometa"  ->
               [empty |-> FALSE, zip |-> TRUE,
                entries |-> << [name |-> RecordName, lines |-> <<>>],
                               [name |-> PkgInfoName, lines |-> << Req(<<"b">>) >>] >>]
          [] u = "u_empty"   -> [empty |-> TRUE, zip |-> FALSE, entries |-> <<>>] ]

File(filename, url) == [filename |-> filename, url |-> url]

\* the registry's JSON document of a package whose only release "1" has one wheel
DocWheel(u) ==
    [status |-> "ok", info_version |-> "1",
     releases |-> [v \in {"1"} |-> << File(WheelName, u) >>]]

\* what urlopen/json.load of the registry URL can yield
Responses ==
    { [status |-> "http_error", info_version |-> "", releases |-> <<>>],
      [status |-> "error", info_version |-> "", releases |-> <<>>],
      [status |-> "ok", info_version |-> "1", releases |-> [v \in {"1"} |-> <<>>]],
      [status |-> "ok", info_version |-> "1",
       releases |-> [v \in {"1"} |-> << File(SdistName, "u_b") >>]],
      [status |-> "ok", info_version |-> "2",
       releases |-> [v \in {"1", "2"} |->
                        IF v = "1" THEN << File(WheelName, "u_b") >>
                        ELSE << File(SdistName, "u_b"), File(WheelName, "u_c") >>]],
      [status |-> "ok", info_version |-> "1",
       releases |-> [v \in {"1"} |-> << File(ZipSdistName, "u_c") >>]],
      [status |-> "ok", info_version |-> "1",
       releases |-> [v \in {"1"} |->
                        << File(WheelName, "u_a"), File(WheelName, "u_b") >>]] }
    \cup {DocWheel(u) : u \in DOMAIN Archives}

\* None
NoInfo == [found |-> FALSE, url |-> "", version |-> ""]

\* index of the first file whose filename ends in ".whl", 0 if none
FirstWheel(files) ==
    LET hits == {i \in DOMAIN files : EndsWith(files[i].filename, WheelSuffix)}
    IN  IF hits = {} THEN 0 ELSE CHOOSE i \in hits : \A j \in hits : i <= j

\* get_package_info, `response` being what the registry answered
get_package_info(package_name, version, response) ==
    IF response.status # "ok" THEN NoInfo
    ELSE LET v == IF version = NoVersion THEN response.info_version ELSE version
         IN  IF v \notin DOMAIN response.releases THEN NoInfo
             ELSE IF response.releases[v] = <<>> THEN NoInfo
             ELSE LET k == FirstWheel(response.releases[v])
                  IN  IF k = 0 THEN NoInfo
                      ELSE [found |-> TRUE, url |-> response.releases[v][k].url,
                            version |-> v]

\* None, as fetch_package returns it
NoData == [none |-> TRUE, empty |-> TRUE, zip |-> FALSE, entries |-> <<>>]

\* fetch_package: the body of the URL, or None when urlopen/read raised
fetch_package(url, reachable) ==
    IF reachable
    THEN [none |-> FALSE, empty |-> Archives[url].empty, zip |-> Archives[url].zip,
          entries |-> Archives[url].entries]
    ELSE NoData

\* `if data:` - neither None nor b""
Truthy(data) == ~ data.none /\ ~ data.empty

\* urlopen + json.load of https://pypi.org/pypi/{package_name}/json: a name with
\* whitespace makes no valid URL, urlopen raises and the handler catches it
UrlOpen(package_name) ==
    IF \E i \in DOMAIN package_name : package_name[i] \in Whitespace
    THEN {r \in Responses : r.status = "error"}
    ELSE Responses

(***************************************************************************)
(* Python dict: the keys in insertion order, and the value of each key.     *)
(***************************************************************************)
EmptyDict == [keys |-> <<>>, val |-> [k \in {} |-> <<>>]]

Keys(d) == Range(d.keys)

\* k in d
Has(d, k) == k \in Keys(d)

\* d[k] = v
DictSet(d, k, v) ==
    [keys |-> IF Has(d, k) THEN d.keys ELSE Append(d.keys, k),
     val  |-> [x \in Keys(d) \cup {k} |-> IF x = k THEN v ELSE d.val[x]]]

\* counter[k] += 1 in a counting map
Bump(f, k) ==
    [x \in DOMAIN f \cup {k} |->
        (IF x \in DOMAIN f THEN f[x] ELSE 0) + (IF x = k THEN 1 ELSE 0)]

(***************************************************************************)
(* State.                                                                   *)
(***************************************************************************)
VARIABLES
    root_package,  \* the name build_real_graph is called with
    max_depth,     \* its max_depth
    graph,         \* build_real_graph: graph
    visited,       \* build_real_graph: visited
    queue,         \* build_real_graph: queue of [pkg, ver, depth]
    pc,            \* where main is: "build", "built", "print", "done" (mode 1 up
                   \* to the forward tree), "loaded", "query", "sub",
                   \* "print_sub", "reverse", "rev_bfs", "print_rev", "export",
                   \* "exit" (from the query on), "parse", "parsed"
    calls,         \* history: the get_package_info / fetch_package calls made
    writes,        \* history: how often graph[pkg] was assigned, per pkg
    enqueued,      \* history: how often pkg was put on the queue, per pkg
    discarded,     \* history: the entries dropped by the dequeue check
    failures,      \* history: the [pkg, stage] whose processing failed
    heap,          \* the set objects of the tree printer
    stack,         \* the call stack of _print_tree_helper
    out,           \* the lines printed by the running print_tree_from_node
    raised,        \* "none", or the exception that ended the printer
    mode,          \* main: "real" (mode 1) or "test" (mode 2)
    target,        \* main: target
    subgraph,      \* main: subgraph
    rev_graph,     \* main: rev_graph
    rev_deps,      \* main: rev_deps
    rev_queue,     \* main: queue of the reverse traversal
    rev_visited,   \* main: visited of the reverse traversal
    dequeued,      \* history: how often each node was taken from rev_queue
    graphs_to_export, \* main: graphs_to_export, entries [g, is_rev]
    dot,           \* the texts generate_graphviz_code returned, in order
    wheel_data,    \* get_deps_from_wheel: its argument
    wheel_deps,    \* get_deps_from_wheel: the list it returned
    pkg_request,   \* get_package_info: its arguments [package_name, version]
    pkg_response,  \* get_package_info: what the registry answered
    pkg_info       \* get_package_info: what it returned

vars == <<root_package, max_depth, graph, visited, queue, pc, calls, writes,
          enqueued, discarded, failures, heap, stack, out, raised,
          mode, target, subgraph, rev_graph, rev_deps, rev_queue, rev_visited,
          dequeued, graphs_to_export, dot, wheel_data, wheel_deps,
          pkg_request, pkg_response, pkg_info>>

buildVars == <<graph, visited, queue, calls, writes, enqueued, discarded, failures>>

printVars == <<heap, stack, out, raised>>

queryVars == <<mode, target, subgraph, rev_graph, rev_deps, rev_queue, rev_visited,
               dequeued, graphs_to_export, dot>>

parseVars == <<wheel_data, wheel_deps>>

resolveVars == <<pkg_request, pkg_response, pkg_info>>

\* no call of get_package_info under way
NoRequest == [package_name |-> <<>>, version |-> NoVersion]

NoResponse == [status |-> "none", info_version |-> "", releases |-> <<>>]

\* the names main() can pass: as typed, in any letter case, argv unstripped
RootInputs == { <<"a">>, <<"A">>, <<" ","a">> }

RootVersions == {NoVersion, "2"}

(***************************************************************************)
(* build_real_graph.                                                        *)
(***************************************************************************)
\* variant: depths counted from 1
InitialQueue_DepthOne(root, version) ==
    << [pkg |-> Lower(root), ver |-> version, depth |-> 1] >>

\* deque([(root_package.lower(), root_version, 0)])
InitialQueue(root, version) ==
    << [pkg |-> Lower(root), ver |-> version, depth |-> 0] >>

\* variant: only the depth is tested
ShouldDiscard_DepthOnly(pkg, depth) == depth > max_depth

\* if pkg in visited or depth > max_depth: continue
ShouldDiscard(pkg, depth) == pkg \in visited \/ depth > max_depth

\* variant: visited.add(pkg) left out
MarkVisited_Forgotten(vis, pkg) == vis

\* visited.add(pkg)
MarkVisited(vis, pkg) == vis \cup {pkg}

\* variant: queue[0] read without removing it
PopLeft_Peek(q) == q

\* queue.popleft(): what is left of the queue
PopLeft(q) == Tail(q)

\* variant: a bare `continue`, no entry written
RecordNotFound_Skipped(g, pkg) == g

\* graph[pkg] = [] when get_package_info found nothing
RecordNotFound(g, pkg) == DictSet(g, pkg, <<>>)

\* deps = get_deps_from_wheel(data) if data else []
DepsOf(data) == IF Truthy(data) THEN get_deps_from_wheel(data) ELSE <<>>

\* history only: the stage at which the download or the archive failed, if any
FailedStage(data) ==
    IF data.none \/ data.empty THEN {"download"}
    ELSE IF ~ data.zip THEN {"archive"}
    ELSE IF \A i \in DOMAIN data.entries : ~ EndsWith(data.entries[i].name, MetadataSuffix)
         THEN {"metadata"}
    ELSE {}

\* variant: if depth <= max_depth
EnqueueAllowed_Inclusive(depth) == depth <= max_depth

\* if depth < max_depth
EnqueueAllowed(depth) == depth < max_depth

\* variant: queue.append((dep, None, depth))
NewEntries_SameDepth(deps, vis, depth) ==
    LET fresh == SelectSeq(deps, LAMBDA d : d \notin vis)
    IN  [i \in DOMAIN fresh |-> [pkg |-> fresh[i], ver |-> NoVersion, depth |-> depth]]

\* the entries appended by: for dep in deps: if dep not in visited: append
NewEntries(deps, vis, depth) ==
    LET fresh == SelectSeq(deps, LAMBDA d : d \notin vis)
    IN  [i \in DOMAIN fresh |-> [pkg |-> fresh[i], ver |-> NoVersion, depth |-> depth + 1]]

\* variant: the test `if depth < max_depth` left out
QueueAfter_Unguarded(q, deps, vis, depth) ==
    PopLeft(q) \o NewEntries(deps, vis, depth)

\* variant: queue.appendleft in place of queue.append
QueueAfter_Prepend(q, deps, vis, depth) ==
    IF EnqueueAllowed(depth) THEN NewEntries(deps, vis, depth) \o PopLeft(q)
    ELSE PopLeft(q)

\* the queue after the body of the loop for one expanded node
QueueAfter(q, deps, vis, depth) ==
    IF EnqueueAllowed(depth) THEN PopLeft(q) \o NewEntries(deps, vis, depth)
    ELSE PopLeft(q)

RECURSIVE BumpAll(_, _)
BumpAll(f, entries) ==
    IF entries = <<>> THEN f
    ELSE BumpAll(Bump(f, Head(entries).pkg), Tail(entries))

Init ==
    /\ root_package \in RootInputs
    /\ max_depth \in 0..MaxDepthBound
    /\ graph = EmptyDict
    /\ visited = {}
    /\ \E version \in RootVersions : queue = InitialQueue(root_package, version)
    /\ pc = "build"
    /\ calls = {}
    /\ writes = [k \in {} |-> 0]
    /\ enqueued = [k \in {Lower(root_package)} |-> 1]
    /\ discarded = {}
    /\ failures = {}
    /\ heap = <<>>
    /\ stack = <<>>
    /\ out = <<>>
    /\ raised = "none"
    /\ mode = "real"
    /\ target = <<>>
    /\ subgraph = EmptyDict
    /\ rev_graph = EmptyDict
    /\ rev_deps = EmptyDict
    /\ rev_queue = <<>>
    /\ rev_visited = {}
    /\ dequeued = [k \in {} |-> 0]
    /\ graphs_to_export = <<>>
    /\ dot = <<>>
    /\ wheel_data = NoData
    /\ wheel_deps = <<>>
    /\ pkg_request = NoRequest
    /\ pkg_response = NoResponse
    /\ pkg_info = NoInfo

\* lines 80-82: the entry is dropped
Discard ==
    /\ pc = "build"
    /\ queue # <<>>
    /\ ShouldDiscard(Head(queue).pkg, Head(queue).depth)
    /\ queue' = PopLeft(queue)
    /\ discarded' = discarded \cup {Head(queue)}
    /\ UNCHANGED <<root_package, max_depth, graph, visited, pc, calls, writes,
                   enqueued, failures>>
    /\ UNCHANGED printVars
    /\ UNCHANGED queryVars
    /\ UNCHANGED parseVars
    /\ UNCHANGED resolveVars

\* lines 80-88: get_package_info returns None
ExpandNotFound ==
    /\ pc = "build"
    /\ queue # <<>>
    /\ LET e == Head(queue)
       IN  /\ ~ ShouldDiscard(e.pkg, e.depth)
           /\ \E response \in UrlOpen(e.pkg) :
                ~ get_package_info(e.pkg, e.ver, response).found
           /\ visited' = MarkVisited(visited, e.pkg)
           /\ graph' = RecordNotFound(graph, e.pkg)
           /\ queue' = PopLeft(queue)
           /\ calls' = calls \cup
                {[fn |-> "get_package_info", pkg |-> e.pkg, depth |-> e.depth]}
           /\ writes' = Bump(writes, e.pkg)
           /\ failures' = failures \cup {[pkg |-> e.pkg, stage |-> "resolve"]}
    /\ UNCHANGED <<root_package, max_depth, pc, enqueued, discarded>>
    /\ UNCHANGED printVars
    /\ UNCHANGED queryVars
    /\ UNCHANGED parseVars
    /\ UNCHANGED resolveVars

\* lines 80-102: get_package_info returns (url, version)
ExpandFound ==
    /\ pc = "build"
    /\ queue # <<>>
    /\ LET e == Head(queue)
       IN  /\ ~ ShouldDiscard(e.pkg, e.depth)
           /\ \E response \in UrlOpen(e.pkg), reachable \in BOOLEAN :
                LET info == get_package_info(e.pkg, e.ver, response)
                    data == fetch_package(info.url, reachable)
                    deps == DepsOf(data)
                    vis  == MarkVisited(visited, e.pkg)
                IN  /\ info.found
                    /\ failures' = failures \cup
                         {[pkg |-> e.pkg, stage |-> st] : st \in FailedStage(data)}
                    /\ visited' = vis
                    /\ graph' = DictSet(graph, e.pkg, deps)
                    /\ queue' = QueueAfter(queue, deps, vis, e.depth)
                    /\ enqueued' =
                         IF EnqueueAllowed(e.depth)
                         THEN BumpAll(enqueued, NewEntries(deps, vis, e.depth))
                         ELSE enqueued
           /\ calls' = calls \cup
                {[fn |-> "get_package_info", pkg |-> e.pkg, depth |-> e.depth],
                 [fn |-> "fetch_package", pkg |-> e.pkg, depth |-> e.depth]}
           /\ writes' = Bump(writes, e.pkg)
    /\ UNCHANGED <<root_package, max_depth, pc, discarded>>
    /\ UNCHANGED printVars
    /\ UNCHANGED queryVars
    /\ UNCHANGED parseVars
    /\ UNCHANGED resolveVars

\* line 104: the queue is empty, return graph
Return ==
    /\ pc = "build"
    /\ queue = <<>>
    /\ pc' = "built"
    /\ UNCHANGED <<root_package, max_depth>>
    /\ UNCHANGED buildVars
    /\ UNCHANGED printVars
    /\ UNCHANGED queryVars
    /\ UNCHANGED parseVars
    /\ UNCHANGED resolveVars

(***************************************************************************)
(* print_tree_from_node and _print_tree_helper.  A frame of the stack is    *)
(* one activation of _print_tree_helper: its arguments (visited being a     *)
(* reference to a set object of the heap), whether its first lines have     *)
(* run, and the index i of its for loop.  A printed line is its prefix (the *)
(* connectors that precede the name), the node and whether it carries the   *)
(* cycle marker.                                                            *)
(***************************************************************************)
\* the connectors put before the last child and before any other child
LastBranch == "L-- "

MidBranch == "T-- "

\* variant: graph[node], which raises KeyError when node is no key
GetChildren_Subscript(g, node) ==
    [raised |-> ~ Has(g, node), value |-> IF Has(g, node) THEN g.val[node] ELSE <<>>]

\* graph.get(node, []): never raises
GetChildren(g, node) ==
    [raised |-> FALSE, value |-> IF Has(g, node) THEN g.val[node] ELSE <<>>]

\* len(graph[node]): raises KeyError when node is no key
LenOfEntry(g, node) ==
    [raised |-> ~ Has(g, node), value |-> IF Has(g, node) THEN Len(g.val[node]) ELSE 0]

\* variant: visited passed on as it is, the same set object
SetCopy_Alias(h, ref) == [heap |-> h, ref |-> ref]

\* set(visited): a new set object with the same elements
SetCopy(h, ref) == [heap |-> Append(h, h[ref]), ref |-> Len(h) + 1]

\* variant: the test is left out, no node counts as seen
OnPath_Never(node, seen) == FALSE

\* if node in visited
OnPath(node, seen) == node \in seen

Top == stack[Len(stack)]

\* the values of pc while print_tree_from_node runs: on graph (line 275), on
\* subgraph (line 240) and on rev_deps (lines 254 and 293)
Printing == {"print", "print_sub", "print_rev"}

\* the first argument of the running print_tree_from_node
Tree ==
    CASE pc = "print_sub" -> subgraph
      [] pc = "print_rev" -> rev_deps
      [] OTHER -> graph

Pop(st) == SubSeq(st, 1, Len(st) - 1)

\* main, line 275, and print_tree_from_node, lines 181-182
PrintTree ==
    /\ pc = "built"
    /\ pc' = "print"
    /\ heap' = << {} >>
    /\ stack' = << [node |-> Lower(root_package), prefix |-> <<>>, visited |-> 1,
                    entered |-> FALSE, i |-> 0] >>
    /\ UNCHANGED <<root_package, max_depth, out, raised>>
    /\ UNCHANGED buildVars
    /\ UNCHANGED queryVars
    /\ UNCHANGED parseVars
    /\ UNCHANGED resolveVars

\* lines 186-188: the node is on the path, print the marker and return
HelperCycle ==
    /\ pc \in Printing
    /\ stack # <<>>
    /\ ~ Top.entered
    /\ OnPath(Top.node, heap[Top.visited])
    /\ out' = Append(out, [prefix |-> Top.prefix, node |-> Top.node, cycle |-> TRUE])
    /\ stack' = Pop(stack)
    /\ UNCHANGED <<root_package, max_depth, pc, heap, raised>>
    /\ UNCHANGED buildVars
    /\ UNCHANGED queryVars
    /\ UNCHANGED parseVars
    /\ UNCHANGED resolveVars

\* lines 189-190: print the node, visited.add(node)
HelperPrint ==
    /\ pc \in Printing
    /\ stack # <<>>
    /\ ~ Top.entered
    /\ ~ OnPath(Top.node, heap[Top.visited])
    /\ out' = Append(out, [prefix |-> Top.prefix, node |-> Top.node, cycle |-> FALSE])
    /\ heap' = [heap EXCEPT ![Top.visited] = @ \cup {Top.node}]
    /\ stack' = [stack EXCEPT ![Len(stack)].entered = TRUE]
    /\ UNCHANGED <<root_package, max_depth, pc, raised>>
    /\ UNCHANGED buildVars
    /\ UNCHANGED queryVars
    /\ UNCHANGED parseVars
    /\ UNCHANGED resolveVars

\* lines 191-194: one iteration of the for loop, the recursive call
HelperRecurse ==
    /\ pc \in Printing
    /\ stack # <<>>
    /\ Top.entered
    /\ LET children == GetChildren(Tree, Top.node)
           n == LenOfEntry(Tree, Top.node)
       IN  /\ children.raised \/ Top.i < Len(children.value)
           /\ IF children.raised \/ n.raised
              THEN /\ raised' = "KeyError"
                   /\ stack' = <<>>
                   /\ heap' = heap
              ELSE LET dep == children.value[Top.i + 1]
                       is_last == Top.i = n.value - 1
                       branch == IF is_last THEN LastBranch ELSE MidBranch
                       copy == SetCopy(heap, Top.visited)
                   IN  /\ raised' = raised
                       /\ heap' = copy.heap
                       /\ stack' = Append([stack EXCEPT ![Len(stack)].i = @ + 1],
                                          [node |-> dep,
                                           prefix |-> Append(Top.prefix, branch),
                                           visited |-> copy.ref,
                                           entered |-> FALSE, i |-> 0])
    /\ UNCHANGED <<root_package, max_depth, pc, out>>
    /\ UNCHANGED buildVars
    /\ UNCHANGED queryVars
    /\ UNCHANGED parseVars
    /\ UNCHANGED resolveVars

\* the for loop is exhausted: this activation returns
HelperReturn ==
    /\ pc \in Printing
    /\ stack # <<>>
    /\ Top.entered
    /\ ~ GetChildren(Tree, Top.node).raised
    /\ Top.i >= Len(GetChildren(Tree, Top.node).value)
    /\ stack' = Pop(stack)
    /\ UNCHANGED <<root_package, max_depth, pc, heap, out, raised>>
    /\ UNCHANGED buildVars
    /\ UNCHANGED queryVars
    /\ UNCHANGED parseVars
    /\ UNCHANGED resolveVars

\* print_tree_from_node returns (or the exception leaves it); line 276: the
\* graph is put on the export list
PrintDone ==
    /\ pc = "print"
    /\ stack = <<>>
    /\ pc' = "done"
    /\ graphs_to_export' =
         IF raised = "none" THEN Append(graphs_to_export, [g |-> graph, is_rev |-> FALSE])
         ELSE graphs_to_export
    /\ UNCHANGED <<root_package, max_depth>>
    /\ UNCHANGED buildVars
    /\ UNCHANGED printVars
    /\ UNCHANGED <<mode, target, subgraph, rev_graph, rev_deps, rev_queue,
                   rev_visited, dequeued, dot>>
    /\ UNCHANGED parseVars
    /\ UNCHANGED resolveVars

Next ==
    \/ Discard
    \/ ExpandNotFound
    \/ ExpandFound
    \/ Return
    \/ PrintTree
    \/ HelperCycle
    \/ HelperPrint
    \/ HelperRecurse
    \/ HelperReturn
    \/ PrintDone

Spec == Init /\ [][Next]_vars

\* the program is one thread that keeps running: every step that can be taken is
\* taken, given that each network call returns
FairSpec == Spec /\ WF_vars(Next)

(***************************************************************************)
(* The test graph: read_test_repo.  The file test_repo.txt is               *)
(* [exists, lines]; a line is "NODE: dep1 dep2".                            *)
(***************************************************************************)
RECURSIVE DictOf(_)
\* the dict literal {k1: v1, k2: v2, ...} of the items <<k, v>>
DictOf(items) ==
    IF items = <<>> THEN EmptyDict
    ELSE LET last == items[Len(items)]
         IN  DictSet(DictOf(SubSeq(items, 1, Len(items) - 1)), last[1], last[2])

\* {'A': ['B', 'C'], 'B': ['D'], 'C': ['D', 'E'], 'D': [], 'E': ['B']}
DefaultTestGraph ==
    DictOf(<< << <<"A">>, << <<"B">>, <<"C">> >> >>,
              << <<"B">>, << <<"D">> >> >>,
              << <<"C">>, << <<"D">>, <<"E">> >> >>,
              << <<"D">>, <<>> >>,
              << <<"E">>, << <<"B">> >> >> >>)

RECURSIVE Words(_)
\* s.split(): the maximal runs of characters that are no whitespace
Words(s) ==
    LET t == Strip(s)
        k == FirstIndexOf(t, Whitespace)
    IN  IF t = <<>> THEN <<>>
        ELSE IF k = 0 THEN <<t>>
        ELSE <<SubSeq(t, 1, k - 1)>> \o Words(SubSeq(t, k + 1, Len(t)))

\* one iteration of the loop over the lines of the file
AddNodeLine(g, raw) ==
    LET line == Strip(raw)
        parts == SplitOnce(line, ":")
    IN  IF line = <<>> \/ StartsWith(line, <<"#">>) THEN g
        ELSE IF Len(parts) > 1 THEN DictSet(g, Strip(parts[1]), Words(parts[2]))
        ELSE g

RECURSIVE ReadLines(_, _)
ReadLines(lines, g) ==
    IF lines = <<>> THEN g
    ELSE ReadLines(Tail(lines), AddNodeLine(g, Head(lines)))

\* read_test_repo: the graph of the file, the built-in graph when there is
\* no file or it defines no node
read_test_repo(file) ==
    LET g == IF file.exists THEN ReadLines(file.lines, EmptyDict) ELSE EmptyDict
    IN  IF g.keys = <<>> THEN DefaultTestGraph ELSE g

RECURSIVE JoinWords(_)
\* the text " w1 w2 ..." of a list of words
JoinWords(ws) ==
    IF ws = <<>> THEN <<>> ELSE <<" ">> \o Head(ws) \o JoinWords(Tail(ws))

\* the line of the file that declares node with the dependencies ds
NodeLine(node, ds) == node \o <<":">> \o JoinWords(ds)

\* the orders in which the generated files declare their nodes
FileKeyOrders ==
    { << <<"A">> >>,
      << <<"A">>, <<"B">> >>,
      << <<"B">>, <<"A">> >>,
      << <<"A">>, <<"B">>, <<"C">> >> }

\* the dependency lists the generated files use: none, a self loop or a back
\* edge to A, a repeated dependency, and nodes (C when it is not declared, Z)
\* that no line declares
FileDepLists ==
    { <<>>,
      << <<"A">> >>,
      << <<"B">> >>,
      << <<"B">>, <<"C">> >>,
      << <<"C">>, <<"A">> >>,
      << <<"B">>, <<"B">> >>,
      << <<"C">>, <<"Z">> >> }

\* the contents test_repo.txt is given: absent, generated, and written by hand
\* with a comment, a blank line, a line without colon, a node declared twice
\* and lower-case names
TestFiles ==
    { [exists |-> FALSE, lines |-> <<>>] }
    \cup { [exists |-> TRUE,
            lines |-> [i \in DOMAIN ks |-> NodeLine(ks[i], f[ks[i]])]] :
             f \in [{<<"A">>, <<"B">>, <<"C">>} -> FileDepLists], ks \in FileKeyOrders }
    \cup { [exists |-> TRUE, lines |-> << <<"#"," ","A",":"," ","B">>, <<" ">> >>],
           [exists |-> TRUE,
            lines |-> << <<"#"," ","g">>, <<>>, <<"A"," ","B">>,
                         <<" ","A"," ",":"," "," ","B","\t","C"," ">>,
                         <<"C",":","A">>, <<"A",":","C"," ","C">> >>],
           [exists |-> TRUE, lines |-> << <<"a",":"," ","b">>, <<"b",":">> >>] }

(***************************************************************************)
(* build_subgraph_from_node.  The loop works on st = [graph, result,        *)
(* visited, queue]: the dict it was passed and its three locals.            *)
(***************************************************************************)
\* the entries appended by: for dep in graph.get(node, []): if dep not in
\* visited: queue.append((dep, depth + 1))
SubgraphEntries(children, vis, depth) ==
    LET fresh == SelectSeq(children, LAMBDA d : d \notin vis)
    IN  [i \in DOMAIN fresh |-> [node |-> fresh[i], depth |-> depth + 1]]

RECURSIVE SubgraphLoop(_, _)
\* lines 156-164: the while loop
SubgraphLoop(st, limit) ==
    IF st.queue = <<>> THEN st
    ELSE LET e == Head(st.queue)
             rest == Tail(st.queue)
         IN  IF e.node \in st.visited \/ e.depth > limit
             THEN SubgraphLoop([st EXCEPT !.queue = rest], limit)
             ELSE LET children == GetChildren(st.graph, e.node).value
                      vis == st.visited \cup {e.node}
                  IN  SubgraphLoop(
                        [graph |-> st.graph,
                         result |-> DictSet(st.result, e.node, children),
                         visited |-> vis,
                         queue |-> IF e.depth < limit
                                   THEN rest \o SubgraphEntries(children, vis, e.depth)
                                   ELSE rest],
                        limit)

\* build_subgraph_from_node(start, graph, max_depth): .result is the dict it
\* returns, .graph its argument as the call leaves it
build_subgraph_from_node(start, g, limit) ==
    SubgraphLoop([graph |-> g, result |-> EmptyDict, visited |-> {},
                  queue |-> << [node |-> start, depth |-> 0] >>], limit)

(***************************************************************************)
(* build_reverse_graph.  The loops work on st = [graph, rev]: the dict it   *)
(* was passed and the dict it builds.                                       *)
(***************************************************************************)
\* variant: rev = {}
RevInit_Empty(g) == EmptyDict

\* rev = {node: [] for node in graph}
RevInit(g) == [keys |-> g.keys, val |-> [k \in Keys(g) |-> <<>>]]

\* if dep not in rev: rev[dep] = []
RevEnsure(st, dep) ==
    IF Has(st.rev, dep) THEN st ELSE [st EXCEPT !.rev = DictSet(st.rev, dep, <<>>)]

\* variant: the node is appended only when the list does not hold it yet
RevAppend_Unique(st, dep, node) ==
    IF node \in Range(st.rev.val[dep]) THEN st
    ELSE [st EXCEPT !.rev = DictSet(st.rev, dep, Append(st.rev.val[dep], node))]

\* variant: rev[dep].insert(0, node)
RevAppend_Front(st, dep, node) ==
    [st EXCEPT !.rev = DictSet(st.rev, dep, <<node>> \o st.rev.val[dep])]

\* variant: the list of the forward graph is appended to as well
RevAppend_Shared(st, dep, node) ==
    [graph |-> DictSet(st.graph, dep, Append(GetChildren(st.graph, dep).value, node)),
     rev |-> DictSet(st.rev, dep, Append(st.rev.val[dep], node))]

\* rev[dep].append(node)
RevAppend(st, dep, node) ==
    [st EXCEPT !.rev = DictSet(st.rev, dep, Append(st.rev.val[dep], node))]

RECURSIVE RevInner(_, _, _)
\* for dep in deps
RevInner(st, node, ds) ==
    IF ds = <<>> THEN st
    ELSE RevInner(RevAppend(RevEnsure(st, Head(ds)), Head(ds), node), node, Tail(ds))

RECURSIVE RevOuter(_, _, _)
\* for node, deps in graph.items(): items being those of the dict passed
RevOuter(st, items, ks) ==
    IF ks = <<>> THEN st
    ELSE RevOuter(RevInner(st, Head(ks), items[Head(ks)]), items, Tail(ks))

\* build_reverse_graph(graph): .rev is the dict it returns, .graph its
\* argument as the call leaves it
build_reverse_graph(g) ==
    RevOuter([graph |-> g, rev |-> RevInit(g)], g.val, g.keys)

(***************************************************************************)
(* generate_graphviz_code.  A statement of the text is [kind, a, b]: the    *)
(* node statement "a"; or the edge statement "a" -> "b";.  The loops work   *)
(* on st = [lines, added_nodes, added_edges].                               *)
(***************************************************************************)
\* lines.append(f'    "{node}";')
NodeStatement(node) == [kind |-> "node", a |-> node, b |-> <<>>]

\* lines.append(f'    "{edge[0]}" -> "{edge[1]}";')
EdgeStatement(edge) == [kind |-> "edge", a |-> edge[1], b |-> edge[2]]

\* "digraph G {" and "}"
OpenStatement == [kind |-> "open", a |-> <<>>, b |-> <<>>]

CloseStatement == [kind |-> "close", a |-> <<>>, b |-> <<>>]

\* if n not in added_nodes: lines.append(...); added_nodes.add(n)
AddNode(st, n) ==
    IF n \in st.added_nodes THEN st
    ELSE [lines |-> Append(st.lines, NodeStatement(n)),
          added_nodes |-> st.added_nodes \cup {n},
          added_edges |-> st.added_edges]

\* variant: the edge is (node, dep) whatever is_reverse says
EdgeOf_Forward(node, dep, is_reverse) == <<node, dep>>

\* edge = (node, dep) if not is_reverse else (dep, node)
EdgeOf(node, dep, is_reverse) ==
    IF ~ is_reverse THEN <<node, dep>> ELSE <<dep, node>>

\* if edge not in added_edges: lines.append(...); added_edges.add(edge)
AddEdge(st, edge) ==
    IF edge \in st.added_edges THEN st
    ELSE [lines |-> Append(st.lines, EdgeStatement(edge)),
          added_nodes |-> st.added_nodes,
          added_edges |-> st.added_edges \cup {edge}]

RECURSIVE DotInner(_, _, _, _)
\* for dep in deps
DotInner(st, node, ds, is_reverse) ==
    IF ds = <<>> THEN st
    ELSE DotInner(AddEdge(AddNode(st, Head(ds)), EdgeOf(node, Head(ds), is_reverse)),
                  node, Tail(ds), is_reverse)

RECURSIVE DotOuter(_, _, _, _)
\* for node, deps in graph.items()
DotOuter(st, g, ks, is_reverse) ==
    IF ks = <<>> THEN st
    ELSE DotOuter(DotInner(AddNode(st, Head(ks)), Head(ks), g.val[Head(ks)], is_reverse),
                  g, Tail(ks), is_reverse)

\* generate_graphviz_code(graph, is_reverse): the statements of the text
generate_graphviz_code(g, is_reverse) ==
    Append(DotOuter([lines |-> <<OpenStatement>>, added_nodes |-> {}, added_edges |-> {}],
                    g, g.keys, is_reverse).lines,
           CloseStatement)

(***************************************************************************)
(* main after the graph is there: the query for a node, the forward         *)
(* subgraph (mode 2), the reverse traversal, the two trees and the export.  *)
(***************************************************************************)
\* str.upper() on one character
UpperChar(c) ==
    IF \E i \in DOMAIN LowerLetters : LowerLetters[i] = c
    THEN UpperLetters[CHOOSE i \in DOMAIN LowerLetters : LowerLetters[i] = c]
    ELSE c

\* str.upper()
Upper(s) == [i \in DOMAIN s |-> UpperChar(s[i])]

\* max_depth=5, the default of build_subgraph_from_node
SubgraphMaxDepth == 5

\* what the user types when asked for the node
TargetInputs == { <<"A">>, <<" ","b"," ">>, <<"c">>, <<"Z">>, <<"e">> }

\* input(...).strip().upper() in mode 2, input(...).strip().lower() in mode 1
NormalizeTarget(m, typed) ==
    IF m = "test" THEN Upper(Strip(typed)) ELSE Lower(Strip(typed))

\* graphs build_real_graph returns for the registry above, as main is left
\* with them after the forward tree is printed
RealGraphs ==
    { DictOf(<< << <<"a">>, <<>> >> >>),
      DictOf(<< << <<"a">>, << <<"b">>, <<"c">> >> >> >>),
      DictOf(<< << <<"a">>, << <<"a">> >> >> >>),
      DictOf(<< << <<"a">>, << <<"b">> >> >>, << <<"b">>, <<>> >> >>),
      DictOf(<< << <<"a">>, << <<"b">>, <<"c">> >> >>,
                << <<"b">>, << <<"c">> >> >>,
                << <<"c">>, << <<"a">>, <<"b">> >> >> >>),
      DictOf(<< << <<"a">>, << <<"b">>, <<"c">> >> >>,
                << <<"b">>, << <<"d">> >> >>,
                << <<"c">>, << <<"b">> >> >>,
                << <<"d">>, <<>> >> >>),
      DictOf(<< << <<"a">>, << <<"c">>, <<"b">> >> >>,
                << <<"c">>, << <<"d">> >> >>,
                << <<"b">>, << <<"a">> >> >> >>) }

\* variant: every parent is put on the queue
RevIsFresh_Always(dep, vis) == TRUE

\* if dep not in visited
RevIsFresh(dep, vis) == dep \notin vis

\* variant: the filter of mode 1 inverted, `if n not in graph`
RevParents_NonKeys(m, rev, g, node) ==
    LET ps == GetChildren(rev, node).value
    IN  IF m = "real" THEN SelectSeq(ps, LAMBDA n : ~ Has(g, n)) ELSE ps

\* rev_graph.get(node, []), and in mode 1 only the parents that are keys of
\* graph: [n for n in rev_graph.get(node, []) if n in graph]
RevParents(m, rev, g, node) ==
    LET ps == GetChildren(rev, node).value
    IN  IF m = "real" THEN SelectSeq(ps, LAMBDA n : Has(g, n)) ELSE ps

RECURSIVE RevEnqueue(_, _)
\* for dep in rev_deps[node]: if dep not in visited: visited.add(dep);
\* queue.append(dep) - on st = [queue, visited]
RevEnqueue(st, ps) ==
    IF ps = <<>> THEN st
    ELSE IF RevIsFresh(Head(ps), st.visited)
         THEN RevEnqueue([queue |-> Append(st.queue, Head(ps)),
                          visited |-> st.visited \cup {Head(ps)}], Tail(ps))
         ELSE RevEnqueue(st, Tail(ps))

\* variant: the parents are recorded but never put on the queue
RevIteration_NoEnqueue(m, rev, g, st) ==
    LET node == Head(st.queue)
        ps == RevParents(m, rev, g, node)
    IN  [rev_deps |-> DictSet(st.rev_deps, node, ps),
         queue |-> Tail(st.queue),
         visited |-> st.visited]

\* lines 248-253 and 287-292: the body of the while loop, on st = [rev_deps,
\* queue, visited]
RevIteration(m, rev, g, st) ==
    LET node == Head(st.queue)
        ps == RevParents(m, rev, g, node)
        q == RevEnqueue([queue |-> Tail(st.queue), visited |-> st.visited], ps)
    IN  [rev_deps |-> DictSet(st.rev_deps, node, ps),
         queue |-> q.queue,
         visited |-> q.visited]

RECURSIVE RevTraversal(_, _, _, _)
\* lines 247-253 and 286-292: the while loop, run to its end
RevTraversal(m, rev, g, st) ==
    IF st.queue = <<>> THEN st
    ELSE RevTraversal(m, rev, g, RevIteration(m, rev, g, st))

\* lines 245-246 and 284-285: the locals of the traversal from start
RevStart(start) == [rev_deps |-> EmptyDict, queue |-> << start >>, visited |-> {start}]

\* the first activation of _print_tree_helper: lines 181-182
FirstFrame(start) ==
    << [node |-> start, prefix |-> <<>>, visited |-> 1, entered |-> FALSE, i |-> 0] >>

\* graphs_to_export.append((name, g, is_rev))
ExportEntry(g, is_rev) == [g |-> g, is_rev |-> is_rev]

QueryInit ==
    /\ mode \in {"real", "test"}
    /\ IF mode = "test"
       THEN /\ \E file \in TestFiles : graph = read_test_repo(file)
            /\ root_package = <<>>
            /\ pc = "loaded"
            /\ graphs_to_export = <<>>
       ELSE /\ graph \in RealGraphs
            /\ root_package = graph.keys[1]
            /\ pc = "done"
            /\ graphs_to_export = << ExportEntry(graph, FALSE) >>
    /\ max_depth = 2
    /\ visited = {}
    /\ queue = <<>>
    /\ calls = {}
    /\ writes = [k \in {} |-> 0]
    /\ enqueued = [k \in {} |-> 0]
    /\ discarded = {}
    /\ failures = {}
    /\ heap = <<>>
    /\ stack = <<>>
    /\ out = <<>>
    /\ raised = "none"
    /\ target = <<>>
    /\ subgraph = EmptyDict
    /\ rev_graph = EmptyDict
    /\ rev_deps = EmptyDict
    /\ rev_queue = <<>>
    /\ rev_visited = {}
    /\ dequeued = [k \in {} |-> 0]
    /\ dot = <<>>
    /\ wheel_data = NoData
    /\ wheel_deps = <<>>
    /\ pkg_request = NoRequest
    /\ pkg_response = NoResponse
    /\ pkg_info = NoInfo

\* lines 233-236 and 278-281: the node is asked for; main returns when it is
\* no key of graph
Query ==
    /\ pc = (IF mode = "test" THEN "loaded" ELSE "done")
    /\ raised = "none"
    /\ \E typed \in TargetInputs :
         /\ target' = NormalizeTarget(mode, typed)
         /\ pc' = IF ~ Has(graph, target') THEN "exit"
                  ELSE IF mode = "test" THEN "query" ELSE "reverse"
    /\ UNCHANGED <<root_package, max_depth>>
    /\ UNCHANGED buildVars
    /\ UNCHANGED printVars
    /\ UNCHANGED <<mode, subgraph, rev_graph, rev_deps, rev_queue, rev_visited,
                   dequeued, graphs_to_export, dot>>
    /\ UNCHANGED parseVars
    /\ UNCHANGED resolveVars

\* line 239: subgraph = build_subgraph_from_node(target, graph)
BuildSubgraph ==
    /\ pc = "query"
    /\ LET r == build_subgraph_from_node(target, graph, SubgraphMaxDepth)
       IN  /\ subgraph' = r.result
           /\ graph' = r.graph
    /\ pc' = "sub"
    /\ UNCHANGED <<root_package, max_depth, visited, queue, calls, writes, enqueued,
                   discarded, failures>>
    /\ UNCHANGED printVars
    /\ UNCHANGED <<mode, target, rev_graph, rev_deps, rev_queue, rev_visited,
                   dequeued, graphs_to_export, dot>>
    /\ UNCHANGED parseVars
    /\ UNCHANGED resolveVars

\* line 240: print_tree_from_node(subgraph, target, ...) is entered
PrintSubgraph ==
    /\ pc = "sub"
    /\ pc' = "print_sub"
    /\ heap' = << {} >>
    /\ stack' = FirstFrame(target)
    /\ out' = <<>>
    /\ UNCHANGED <<root_package, max_depth, raised>>
    /\ UNCHANGED buildVars
    /\ UNCHANGED queryVars
    /\ UNCHANGED parseVars
    /\ UNCHANGED resolveVars

\* line 241: the tree is printed, the subgraph is put on the export list
SubgraphPrinted ==
    /\ pc = "print_sub"
    /\ stack = <<>>
    /\ raised = "none"
    /\ graphs_to_export' = Append(graphs_to_export, ExportEntry(subgraph, FALSE))
    /\ pc' = "reverse"
    /\ UNCHANGED <<root_package, max_depth>>
    /\ UNCHANGED buildVars
    /\ UNCHANGED printVars
    /\ UNCHANGED <<mode, target, subgraph, rev_graph, rev_deps, rev_queue,
                   rev_visited, dequeued, dot>>
    /\ UNCHANGED parseVars
    /\ UNCHANGED resolveVars

\* lines 244-246 and 283-285: rev_graph = build_reverse_graph(graph) and the
\* locals of the traversal
StartReverse ==
    /\ pc = "reverse"
    /\ LET r == build_reverse_graph(graph)
       IN  /\ rev_graph' = r.rev
           /\ graph' = r.graph
    /\ rev_deps' = RevStart(target).rev_deps
    /\ rev_queue' = RevStart(target).queue
    /\ rev_visited' = RevStart(target).visited
    /\ pc' = "rev_bfs"
    /\ UNCHANGED <<root_package, max_depth, visited, queue, calls, writes, enqueued,
                   discarded, failures>>
    /\ UNCHANGED printVars
    /\ UNCHANGED <<mode, target, subgraph, dequeued, graphs_to_export, dot>>
    /\ UNCHANGED parseVars
    /\ UNCHANGED resolveVars

\* lines 247-253 and 286-292: one iteration of the while loop
ReverseStep ==
    /\ pc = "rev_bfs"
    /\ rev_queue # <<>>
    /\ LET st == RevIteration(mode, rev_graph, graph,
                              [rev_deps |-> rev_deps, queue |-> rev_queue,
                               visited |-> rev_visited])
       IN  /\ rev_deps' = st.rev_deps
           /\ rev_queue' = st.queue
           /\ rev_visited' = st.visited
           /\ dequeued' = Bump(dequeued, Head(rev_queue))
    /\ UNCHANGED <<root_package, max_depth, pc>>
    /\ UNCHANGED buildVars
    /\ UNCHANGED printVars
    /\ UNCHANGED <<mode, target, subgraph, rev_graph, graphs_to_export, dot>>
    /\ UNCHANGED parseVars
    /\ UNCHANGED resolveVars

\* lines 254 and 293: the queue is empty, print_tree_from_node(rev_deps,
\* target, ...) is entered
PrintReverse ==
    /\ pc = "rev_bfs"
    /\ rev_queue = <<>>
    /\ pc' = "print_rev"
    /\ heap' = << {} >>
    /\ stack' = FirstFrame(target)
    /\ out' = <<>>
    /\ UNCHANGED <<root_package, max_depth, raised>>
    /\ UNCHANGED buildVars
    /\ UNCHANGED queryVars
    /\ UNCHANGED parseVars
    /\ UNCHANGED resolveVars

\* lines 255 and 294: the tree is printed, rev_deps is put on the export list
ReversePrinted ==
    /\ pc = "print_rev"
    /\ stack = <<>>
    /\ raised = "none"
    /\ graphs_to_export' = Append(graphs_to_export, ExportEntry(rev_deps, TRUE))
    /\ pc' = "export"
    /\ UNCHANGED <<root_package, max_depth>>
    /\ UNCHANGED buildVars
    /\ UNCHANGED printVars
    /\ UNCHANGED <<mode, target, subgraph, rev_graph, rev_deps, rev_queue,
                   rev_visited, dequeued, dot>>
    /\ UNCHANGED parseVars
    /\ UNCHANGED resolveVars

\* lines 300-302: one iteration of the loop over graphs_to_export
Export ==
    /\ pc = "export"
    /\ Len(dot) < Len(graphs_to_export)
    /\ LET e == graphs_to_export[Len(dot) + 1]
       IN  dot' = Append(dot, generate_graphviz_code(e.g, e.is_rev))
    /\ UNCHANGED <<root_package, max_depth, pc>>
    /\ UNCHANGED buildVars
    /\ UNCHANGED printVars
    /\ UNCHANGED <<mode, target, subgraph, rev_graph, rev_deps, rev_queue,
                   rev_visited, dequeued, graphs_to_export>>
    /\ UNCHANGED parseVars
    /\ UNCHANGED resolveVars

\* every graph is exported: main returns
Exit ==
    /\ pc = "export"
    /\ Len(dot) = Len(graphs_to_export)
    /\ pc' = "exit"
    /\ UNCHANGED <<root_package, max_depth>>
    /\ UNCHANGED buildVars
    /\ UNCHANGED printVars
    /\ UNCHANGED queryVars
    /\ UNCHANGED parseVars
    /\ UNCHANGED resolveVars

QueryNext ==
    \/ Query
    \/ BuildSubgraph
    \/ PrintSubgraph
    \/ HelperCycle
    \/ HelperPrint
    \/ HelperRecurse
    \/ HelperReturn
    \/ SubgraphPrinted
    \/ StartReverse
    \/ ReverseStep
    \/ PrintReverse
    \/ ReversePrinted
    \/ Export
    \/ Exit

\* main from the query on, for the graphs of both modes
QuerySpec == QueryInit /\ [][QueryNext]_vars

\* the steps of the recursion of the printer and of the loop of the reverse
\* traversal, and the returns from them
QueryLoopStep ==
    \/ HelperCycle
    \/ HelperPrint
    \/ HelperRecurse
    \/ HelperReturn
    \/ SubgraphPrinted
    \/ ReverseStep
    \/ PrintReverse
    \/ ReversePrinted

\* the program is one thread that keeps running: a recursion or a loop that
\* can take a step takes it
FairQuerySpec == QuerySpec /\ WF_vars(QueryLoopStep)

(***************************************************************************)
(* get_deps_from_wheel on its own: the archives it is applied to.  A        *)
(* declaration is a name, a version constraint and a condition.             *)
(***************************************************************************)
\* the names of the declarations
DeclNames ==
    { <<"u","r","l","l","i","b","3">>,
      <<"f","o","o">>,
      <<"F","o","o">>,
      <<"b">> }

\* what follows the name: nothing, comparisons, an extras list, a
\* parenthesised constraint with and without a space before it
DeclConstraints ==
    { <<>>,
      <<">","=","1",".","2","1",".","1",",","<","3">>,
      <<"[","e","x","t","r","a","]",">","=","1">>,
      <<"(",">","=","1",".","0",")">>,
      <<" ","(",">","=","1",".","0",")">>,
      <<"~","=","2">>,
      <<"!","=","1">>,
      <<"=","=","1"," ">>,
      <<"<","2">> }

\* what follows the constraint: nothing, or ";" and an environment marker
DeclConditions ==
    { <<>>,
      <<";"," ","e","x","t","r","a"," ","=","="," ","\"","d","e","v","\"">>,
      <<";"," ","e","x","t","r","a"," ","=","="," ","\"","\"">>,
      <<";"," ","p","y","t","h","o","n","_","v","e","r","s","i","o","n"," ","<"," ","\"","3","\"">>,
      <<";"," ","e","x","t","r","a"," ","=","="," ","'","d","e","v","'">>,
      <<";","e","x","t","r","a","=","=","\"","d","e","v","\"">>,
      <<";"," ","e","x","t","r","a"," ","=","="," ","'","m","a","i","n","'">>,
      <<" ",";"," ","e","x","t","r","a"," ","=","="," ","\"","m","a","i","n","\"">>,
      <<";"," ","e","x","t","r","a"," ","=","="," ","\"","d","e","f","a","u","l","t","\"">>,
      <<";"," ","e","x","t","r","a"," ","=","="," ","\"","d","e","v","\""," ","a","n","d"," ","o","s","_","n","a","m","e"," ","!","="," ","\"","\"">>,
      <<";"," ","o","s","_","n","a","m","e"," ","=","="," ","\"","n","t","\""," ","a","n","d"," ","e","x","t","r","a"," ","=","="," ","\"","t","e","s","t","\"">> }

\* the text after "Requires-Dist: " of the METADATA lines
Declarations ==
    {n \o c \o k : n \in DeclNames, c \in DeclConstraints, k \in DeclConditions}

\* archives that hold a PKG-INFO entry and a METADATA entry, in either order
MixedArchives ==
    { [empty |-> FALSE, zip |-> TRUE,
       entries |-> << [name |-> PkgInfoName, lines |-> << Req(<<"b">>) >>],
                      [name |-> MetadataName, lines |-> << Req(<<"c">>) >>] >>],
      [empty |-> FALSE, zip |-> TRUE,
       entries |-> << [name |-> MetadataName, lines |-> << Req(<<"c">>) >>],
                      [name |-> PkgInfoName, lines |-> << Req(<<"b">>) >>] >>] }

\* short declarations, some of them without a name, for wheels of four lines
ShortDeclarations ==
    { <<"b">>,
      <<"B",">","=","1">>,
      <<"c">>,
      <<">","=","1">>,
      <<>>,
      <<"c",";"," ","e","x","t","r","a"," ","=","="," ","\"","d","e","v","\"">> }

\* the bytes get_deps_from_wheel is applied to: a wheel with one declaration,
\* wheels with two and with four, and the archives of the registry
ParseInputs ==
    {Wheel(<< Req(d) >>) : d \in Declarations}
    \cup {Wheel(<< Req(n \o k1), Req(Lower(n) \o k2) >>) :
            n \in DeclNames, k1 \in DeclConditions, k2 \in DeclConditions}
    \cup {Wheel(<< Req(w), Req(x), Req(y), Req(z) >>) :
            w \in ShortDeclarations, x \in ShortDeclarations,
            y \in ShortDeclarations, z \in ShortDeclarations}
    \cup {Archives[u] : u \in DOMAIN Archives}
    \cup MixedArchives

ParseInit ==
    /\ wheel_data \in {[none |-> FALSE, empty |-> w.empty, zip |-> w.zip,
                         entries |-> w.entries] : w \in ParseInputs}
    /\ wheel_deps = <<>>
    /\ pkg_request = NoRequest
    /\ pkg_response = NoResponse
    /\ pkg_info = NoInfo
    /\ pc = "parse"
    /\ root_package = <<>>
    /\ max_depth = 2
    /\ graph = EmptyDict
    /\ visited = {}
    /\ queue = <<>>
    /\ calls = {}
    /\ writes = [k \in {} |-> 0]
    /\ enqueued = [k \in {} |-> 0]
    /\ discarded = {}
    /\ failures = {}
    /\ heap = <<>>
    /\ stack = <<>>
    /\ out = <<>>
    /\ raised = "none"
    /\ mode = "real"
    /\ target = <<>>
    /\ subgraph = EmptyDict
    /\ rev_graph = EmptyDict
    /\ rev_deps = EmptyDict
    /\ rev_queue = <<>>
    /\ rev_visited = {}
    /\ dequeued = [k \in {} |-> 0]
    /\ graphs_to_export = <<>>
    /\ dot = <<>>

\* line 99 of build_real_graph: deps = get_deps_from_wheel(data)
ParseWheel ==
    /\ pc = "parse"
    /\ wheel_deps' = get_deps_from_wheel(wheel_data)
    /\ pc' = "parsed"
    /\ UNCHANGED <<root_package, max_depth, wheel_data>>
    /\ UNCHANGED buildVars
    /\ UNCHANGED printVars
    /\ UNCHANGED queryVars
    /\ UNCHANGED resolveVars

ParseNext == ParseWheel

\* get_deps_from_wheel applied to each of the archives
ParseSpec == ParseInit /\ [][ParseNext]_vars

(***************************************************************************)
(* get_package_info on its own: the names and versions it is called with   *)
(* and the registry's answers.                                              *)
(***************************************************************************)
\* the names of line 85: lower-cased, argv unstripped
ResolvePackages == {Lower(r) : r \in RootInputs}

\* None, a version the registry lists, and one it does not list
ResolveVersions == {NoVersion, "1", "2", "3"}

ResolveInit ==
    /\ pkg_request \in [package_name : ResolvePackages, version : ResolveVersions]
    /\ pkg_response \in UrlOpen(pkg_request.package_name)
    /\ pkg_info = NoInfo
    /\ pc = "resolve"
    /\ root_package = <<>>
    /\ max_depth = 2
    /\ graph = EmptyDict
    /\ visited = {}
    /\ queue = <<>>
    /\ calls = {}
    /\ writes = [k \in {} |-> 0]
    /\ enqueued = [k \in {} |-> 0]
    /\ discarded = {}
    /\ failures = {}
    /\ heap = <<>>
    /\ stack = <<>>
    /\ out = <<>>
    /\ raised = "none"
    /\ mode = "real"
    /\ target = <<>>
    /\ subgraph = EmptyDict
    /\ rev_graph = EmptyDict
    /\ rev_deps = EmptyDict
    /\ rev_queue = <<>>
    /\ rev_visited = {}
    /\ dequeued = [k \in {} |-> 0]
    /\ graphs_to_export = <<>>
    /\ dot = <<>>
    /\ wheel_data = NoData
    /\ wheel_deps = <<>>

\* line 85 of build_real_graph: info = get_package_info(pkg, ver)
Resolve ==
    /\ pc = "resolve"
    /\ pkg_info' = get_package_info(pkg_request.package_name, pkg_request.version,
                                    pkg_response)
    /\ pc' = "resolved"
    /\ UNCHANGED <<root_package, max_depth, pkg_request, pkg_response>>
    /\ UNCHANGED buildVars
    /\ UNCHANGED printVars
    /\ UNCHANGED queryVars
    /\ UNCHANGED parseVars

ResolveNext == Resolve

\* get_package_info applied to each request and answer
ResolveSpec == ResolveInit /\ [][ResolveNext]_vars

(***************************************************************************)
(* Properties of build_real_graph.                                          *)
(***************************************************************************)
\* the depths at which get_package_info was called for pkg
ExpandDepths(pkg) ==
    {c.depth : c \in {x \in calls : x.fn = "get_package_info" /\ x.pkg = pkg}}

\* the head of the queue is about to be dropped by the dequeue check
HeadIsDropped ==
    /\ pc = "build"
    /\ queue # <<>>
    /\ (Head(queue).pkg \in visited \/ Head(queue).depth > max_depth)

\* the head of the queue is about to be expanded
HeadIsExpanded ==
    /\ pc = "build"
    /\ queue # <<>>
    /\ ~ (Head(queue).pkg \in visited \/ Head(queue).depth > max_depth)

\* C1: every NodeId is expanded at most once in a build - its graph entry is
\* assigned at most once and get_package_info is called for it at most once,
\* however often it was put on the queue - and an entry of the graph, once
\* written, is never removed or overwritten.
C1_ExpandedAtMostOnce ==
    /\ [](\A n \in DOMAIN writes : writes[n] <= 1)
    /\ [](\A n \in Keys(graph) : Cardinality(ExpandDepths(n)) = 1)
    /\ [][\A n \in Keys(graph) : Has(graph', n) /\ graph'.val[n] = graph.val[n]]_vars

\* a build has returned in which some NodeId was put on the queue by two
\* parents before it was first dequeued, and was expanded once
C1_Witness ==
    /\ pc = "built"
    /\ \E n \in DOMAIN enqueued : enqueued[n] >= 2 /\ Has(graph, n) /\ writes[n] = 1

\* C2: no node beyond the depth bound is expanded - every key of the graph was
\* dequeued at a depth <= max_depth and neither get_package_info nor
\* fetch_package is called for an entry of greater depth - and dropping an entry
\* changes neither graph nor visited (nor makes any call).
C2_DepthBound ==
    /\ [](\A c \in calls : c.depth <= max_depth)
    /\ [](\A n \in Keys(graph) : \E d \in ExpandDepths(n) : d <= max_depth)
    /\ [][HeadIsDropped =>
            /\ graph' = graph
            /\ visited' = visited
            /\ calls' = calls
            /\ queue' = Tail(queue)]_vars

\* a build has returned that dropped an entry and expanded a node at max_depth
C2_Witness ==
    /\ pc = "built"
    /\ max_depth > 0
    /\ discarded # {}
    /\ \E c \in calls : c.fn = "fetch_package" /\ c.depth = max_depth

\* C3: when build_real_graph returns, the NodeIds marked visited are exactly
\* the keys of the graph, each with one entry, whatever the fetches did.
C3_VisitedEqualsKeys ==
    pc = "built" =>
        /\ visited = Keys(graph)
        /\ Len(graph.keys) = Cardinality(visited)
        /\ DOMAIN graph.val = visited

\* a build has returned with three keys, one of them after a failed lookup and
\* one after a failed download
C3_Witness ==
    /\ pc = "built"
    /\ Cardinality(visited) >= 3
    /\ \E f \in failures : f.stage = "resolve"
    /\ \E f \in failures : f.stage = "download"

\* C4: a failure at any stage of one node (lookup, download, archive, metadata
\* entry) leaves graph[node] = [] for that node and touches nothing else: the
\* other entries of the graph and the rest of the queue are kept, the loop goes
\* on, and once the queue is empty the graph is returned; a build whose root the
\* registry does not know returns exactly {root: []}.
C4_FailureIsEmptyEntry ==
    /\ [](\A f \in failures : Has(graph, f.pkg) /\ graph.val[f.pkg] = <<>>)
    /\ [][(HeadIsExpanded /\ failures' # failures) =>
            /\ queue' = Tail(queue)
            /\ pc' = "build"
            /\ Keys(graph') = Keys(graph) \cup {Head(queue).pkg}
            /\ \A n \in Keys(graph) \ {Head(queue).pkg} : graph'.val[n] = graph.val[n]]_vars
    /\ [](pc = "built" =>
            /\ queue = <<>>
            /\ ([pkg |-> Lower(root_package), stage |-> "resolve"] \in failures
                  => graph = [keys |-> << Lower(root_package) >>,
                              val  |-> [k \in {Lower(root_package)} |-> <<>>]]))

\* a build has returned in which two nodes failed at different stages, one of
\* them in the archive, a node was expanded after a failure, and some node has
\* dependencies
C4_Witness ==
    /\ pc = "built"
    /\ \E f, g \in failures :
          f.pkg # g.pkg /\ f.stage = "resolve" /\ g.stage \in {"archive", "metadata"}
    /\ \E n \in Keys(graph) : graph.val[n] # <<>>
    /\ \E i, j \in DOMAIN graph.keys :
          /\ i < j
          /\ \E f \in failures : f.pkg = graph.keys[i]

\* C5: build_real_graph terminates: in every run the queue drains and the
\* graph is returned, for cyclic and self-referential dependencies, every
\* max_depth >= 0 and every pattern of failures.
C5_Terminates == <>(pc = "built" /\ queue = <<>>)

\* a build over a self-referential and cyclic dependency relation has returned
C5_Witness ==
    /\ pc = "built"
    /\ max_depth >= 2
    /\ \E n \in Keys(graph) : n \in Range(graph.val[n])
    /\ \E n, m \in Keys(graph) :
          n # m /\ m \in Range(graph.val[n]) /\ n \in Range(graph.val[m])

\* the NodeId of the root, as build_real_graph derives it
RootId == Lower(root_package)

\* C6 as stated: with max_depth = 0 the graph has exactly one key, the root,
\* and no NodeId of the root's dependency list is a key of the graph.
C6_Original ==
    (pc = "built" /\ max_depth = 0) =>
        /\ graph.keys = << RootId >>
        /\ \A d \in Range(graph.val[RootId]) : ~ Has(graph, d)

\* C6 (amended): with max_depth = 0 the graph has exactly one key, the root,
\* and no NodeId of the root's dependency list other than the root itself is a
\* key of the graph.
C6_MaxDepthZero ==
    (pc = "built" /\ max_depth = 0) =>
        /\ graph.keys = << RootId >>
        /\ \A d \in Range(graph.val[RootId]) \ {RootId} : ~ Has(graph, d)

\* a build with max_depth = 0 has returned whose root lists itself and another
\* package
C6_Witness ==
    /\ pc = "built"
    /\ max_depth = 0
    /\ Has(graph, RootId)
    /\ RootId \in Range(graph.val[RootId])
    /\ \E d \in Range(graph.val[RootId]) : d # RootId

\* C7 as stated: every not yet visited dependency found while expanding a node
\* at depth = max_depth is appended to the queue (at depth max_depth + 1, to be
\* dropped later by the depth test).
C7_Original ==
    [][(HeadIsExpanded /\ Head(queue).depth = max_depth) =>
          \A d \in Range(graph'.val[Head(queue).pkg]) \ visited' :
              \E i \in DOMAIN queue' :
                  queue'[i].pkg = d /\ queue'[i].depth = max_depth + 1]_vars

\* C7 (amended): a dependency found while expanding a node at depth =
\* max_depth is recorded in that node's list but is not appended to the queue,
\* and that expansion adds no key for it; so no entry of the queue ever has a
\* depth above max_depth and the depth test of the dequeue step never drops one.
C7_NotEnqueuedAtBound ==
    /\ [][(HeadIsExpanded /\ Head(queue).depth = max_depth) =>
            /\ queue' = Tail(queue)
            /\ enqueued' = enqueued
            /\ Keys(graph') = Keys(graph) \cup {Head(queue).pkg}]_vars
    /\ [](\A i \in DOMAIN queue : queue[i].depth <= max_depth)
    /\ [](\A e \in discarded : e.depth <= max_depth)

\* a build has returned in which a node expanded at max_depth has a dependency
\* that was never visited
C7_Witness ==
    /\ pc = "built"
    /\ \E n \in Keys(graph) :
          /\ max_depth \in ExpandDepths(n)
          /\ \E d \in Range(graph.val[n]) : d \notin visited

(***************************************************************************)
(* Properties of the printed tree.  The level of a line is the number of    *)
(* connectors of its prefix; its ancestors are the nearest earlier lines of *)
(* each smaller level, its children the lines one level deeper that follow  *)
(* it before the next line of its own level or above.                       *)
(***************************************************************************)
Level(i) == Len(out[i].prefix)

AncestorLines(i) ==
    {j \in 1..(i - 1) :
        /\ Level(j) < Level(i)
        /\ \A k \in (j + 1)..(i - 1) : Level(k) > Level(j)}

ChildLines(i) ==
    {j \in (i + 1)..Len(out) :
        /\ Level(j) = Level(i) + 1
        /\ \A k \in (i + 1)..(j - 1) : Level(k) > Level(i)}

\* the nodes of the children of line i, in the order printed
ChildNodes(i) ==
    LET idx == SelectSeq([j \in 1..Len(out) |-> j], LAMBDA j : j \in ChildLines(i))
    IN  [k \in DOMAIN idx |-> out[idx[k]].node]

\* line i has no line below it
IsLeafLine(i) == i = Len(out) \/ Level(i + 1) <= Level(i)

\* the keys expanded at depth = max_depth
ExpandedAtBound == {p \in Keys(graph) : max_depth \in ExpandDepths(p)}

\* C8 as stated: every dependency in the list of a node expanded at depth =
\* max_depth is no key of the returned graph, and the printer prints it as one
\* leaf line without children and without an error.
C8_Original ==
    pc = "done" =>
        /\ raised = "none"
        /\ \A p \in ExpandedAtBound : \A d \in Range(graph.val[p]) :
              /\ ~ Has(graph, d)
              /\ \E i \in DOMAIN out : out[i].node = d
              /\ \A i \in DOMAIN out :
                    out[i].node = d => ~ out[i].cycle /\ IsLeafLine(i)

\* C8 (amended): a dependency in the list of a node expanded at depth =
\* max_depth is a key of the returned graph only if it is the root or is also a
\* dependency of a node expanded at a smaller depth; otherwise it is no key,
\* and the printer prints every referenced-but-absent key as one leaf line
\* without children, without the cycle marker and without raising an error.
C8_BoundaryNodes ==
    pc = "done" =>
        /\ raised = "none"
        /\ \A p \in ExpandedAtBound : \A d \in Range(graph.val[p]) :
              /\ Has(graph, d) =>
                    \/ d = RootId
                    \/ \E q \in Keys(graph) :
                          /\ \E k \in ExpandDepths(q) : k < max_depth
                          /\ d \in Range(graph.val[q])
              /\ ~ Has(graph, d) => \E i \in DOMAIN out : out[i].node = d
        /\ \A i \in DOMAIN out :
              ~ Has(graph, out[i].node) => ~ out[i].cycle /\ IsLeafLine(i)

\* the tree of a built graph has been printed in which a node expanded at
\* max_depth lists both a key of the graph and a NodeId that is no key
C8_Witness ==
    /\ pc = "done"
    /\ raised = "none"
    /\ \E p \in ExpandedAtBound :
          /\ \E d \in Range(graph.val[p]) : Has(graph, d)
          /\ \E d \in Range(graph.val[p]) :
                ~ Has(graph, d) /\ \E i \in DOMAIN out : out[i].node = d

\* C9: every key of a graph returned by build_real_graph is lower-cased and
\* trimmed, the root is found under the lower-cased, trimmed form of the name
\* given, and no two keys differ only in letter case.
C9_KeysNormalized ==
    pc = "built" =>
        /\ \A k \in Keys(graph) : k = Lower(k) /\ k = Strip(k)
        /\ Has(graph, Lower(Strip(root_package)))
        /\ \A k1, k2 \in Keys(graph) : Lower(k1) = Lower(k2) => k1 = k2

\* C10: the cycle test of the printer is per path.  A line carries the cycle
\* marker exactly when its node is the node of one of its ancestor lines, and
\* then it has no children; every other line is followed by one child line per
\* entry of its node's dependency list, in order, wherever else the node was
\* printed before.
C10_PerPathCycles ==
    pc = "done" =>
        /\ raised = "none"
        /\ \A i \in DOMAIN out :
              /\ out[i].cycle <=> out[i].node \in {out[j].node : j \in AncestorLines(i)}
              /\ out[i].cycle => ChildLines(i) = {}
              /\ ~ out[i].cycle =>
                    ChildNodes(i) = (IF Has(graph, out[i].node)
                                     THEN graph.val[out[i].node] ELSE <<>>)

\* a tree has been printed in which a node with children is expanded on two
\* different paths (a diamond) and another line carries the cycle marker
C10_Witness ==
    /\ pc = "done"
    /\ \E i, j \in DOMAIN out :
          /\ i < j
          /\ out[i].node = out[j].node
          /\ ~ out[i].cycle /\ ~ out[j].cycle
          /\ ChildLines(i) # {} /\ ChildLines(j) # {}
          /\ i \notin AncestorLines(j)
    /\ \E i \in DOMAIN out : out[i].cycle

(***************************************************************************)
(* Properties of the tree printer on the test graph.                        *)
(***************************************************************************)
\* every NodeId of the graph g: its keys and the members of its lists
AllNodes(g) == Keys(g) \cup UNION {Range(g.val[k]) : k \in Keys(g)}

\* print_tree_from_node(subgraph, "A", ...) runs on the built-in test graph
DefaultTreeRuns ==
    /\ pc = "print_sub"
    /\ graph = DefaultTestGraph
    /\ target = <<"A">>

\* ... and has returned
DefaultTreeDone == DefaultTreeRuns /\ stack = <<>>

Line(prefix, node, cycle) == [prefix |-> prefix, node |-> node, cycle |-> cycle]

\* the tree of the built-in test graph from A as the code prints it
DefaultTree ==
    << Line(<<>>, <<"A">>, FALSE),
       Line(<<MidBranch>>, <<"B">>, FALSE),
       Line(<<MidBranch, LastBranch>>, <<"D">>, FALSE),
       Line(<<LastBranch>>, <<"C">>, FALSE),
       Line(<<LastBranch, MidBranch>>, <<"D">>, FALSE),
       Line(<<LastBranch, LastBranch>>, <<"E">>, FALSE),
       Line(<<LastBranch, LastBranch, LastBranch>>, <<"B">>, FALSE),
       Line(<<LastBranch, LastBranch, LastBranch, LastBranch>>, <<"D">>, FALSE) >>

C12_CycleSafe ==
    /\ [](pc \in Printing => Len(stack) <= Cardinality(AllNodes(Tree)) + 1)
    /\ ((pc \in Printing) ~> (pc \notin Printing))

\* the recursion is as deep as it gets: every node of a graph of three or more
\* is on the path and the innermost activation is about to print the marker
C12_Witness ==
    /\ pc \in Printing
    /\ Cardinality(AllNodes(Tree)) >= 3
    /\ Len(stack) = Cardinality(AllNodes(Tree)) + 1
    /\ ~ Top.entered
    /\ OnPath(Top.node, heap[Top.visited])
    /\ \E k \in Keys(graph) : k \in Range(graph.val[k])

(***************************************************************************)
(* Properties of build_reverse_graph and of the reverse traversal.          *)
(***************************************************************************)
\* rev_graph = build_reverse_graph(graph) has been executed
ReverseBuilt ==
    \/ pc \in {"rev_bfs", "print_rev", "export"}
    \/ pc = "exit" /\ Has(graph, target)

\* how often x occurs in the list s
Count(s, x) == Cardinality({i \in DOMAIN s : s[i] = x})

RECURSIVE SumOfLens(_, _)
\* the lengths of the lists of the keys ks of d, added up
SumOfLens(d, ks) ==
    IF ks = <<>> THEN 0 ELSE Len(d.val[Head(ks)]) + SumOfLens(d, Tail(ks))

\* the position of the key k in the insertion order of g
KeyPos(g, k) == CHOOSE i \in DOMAIN g.keys : g.keys[i] = k

\* C13: build_reverse_graph(graph) returns a map whose keys are exactly the
\* NodeIds that occur in graph, as a key or in a dependency list; a node
\* nothing depends on and a node that is no key of graph have an entry too.
C13_ReverseKeys ==
    ReverseBuilt =>
        /\ Keys(rev_graph) = AllNodes(graph)
        /\ Len(rev_graph.keys) = Cardinality(Keys(rev_graph))
        /\ DOMAIN rev_graph.val = Keys(rev_graph)

\* the reverse graph of a graph with a node nothing depends on and a node
\* that is no key
C13_Witness ==
    /\ ReverseBuilt
    /\ \E k \in Keys(graph) : rev_graph.val[k] = <<>>
    /\ \E n \in Keys(rev_graph) : ~ Has(graph, n) /\ rev_graph.val[n] # <<>>

\* C14: build_reverse_graph inverts exactly: n occurs in reverse[d] as often
\* as d occurs in graph[n], and the reverse lists hold as many entries in
\* total as the dependency lists.
C14_ExactInversion ==
    ReverseBuilt =>
        /\ \A n \in AllNodes(graph), d \in AllNodes(graph) :
              Has(rev_graph, d) /\
              Count(rev_graph.val[d], n) =
                (IF Has(graph, n) THEN Count(graph.val[n], d) ELSE 0)
        /\ SumOfLens(rev_graph, rev_graph.keys) = SumOfLens(graph, graph.keys)

\* the graph lists a dependency twice, and has a cycle
C14_Witness ==
    /\ ReverseBuilt
    /\ \E n \in Keys(graph), d \in Keys(graph) :
          /\ Count(graph.val[n], d) = 2
          /\ Count(rev_graph.val[d], n) = 2
          /\ n \in Range(graph.val[d])
    /\ SumOfLens(graph, graph.keys) >= 4

\* C15: on the test graph reverse(D) = [B, C], reverse(B) = [A, E] and
\* reverse(A) = []; the parents of a node are listed in the order in which
\* they are keys of the forward graph.
C15_ReverseOfDefault ==
    ReverseBuilt =>
        /\ graph = DefaultTestGraph =>
              /\ rev_graph.val[<<"D">>] = << <<"B">>, <<"C">> >>
              /\ rev_graph.val[<<"B">>] = << <<"A">>, <<"E">> >>
              /\ rev_graph.val[<<"A">>] = <<>>
        /\ \A d \in Keys(rev_graph) :
              \A i \in DOMAIN rev_graph.val[d], j \in DOMAIN rev_graph.val[d] :
                 i < j => KeyPos(graph, rev_graph.val[d][i])
                            <= KeyPos(graph, rev_graph.val[d][j])

C15_Witness ==
    /\ ReverseBuilt
    /\ graph = DefaultTestGraph
    /\ Len(rev_graph.val[<<"D">>]) = 2

\* the while loop of the reverse traversal has ended
TraversalDone ==
    \/ pc \in {"print_rev", "export"}
    \/ pc = "exit" /\ Has(graph, target)

\* the nodes that list n as a dependency
ParentsOf(g, n) == {k \in Keys(g) : n \in Range(g.val[k])}

RECURSIVE DependentsClosure(_, _)
DependentsClosure(g, S) ==
    LET T == S \cup UNION {ParentsOf(g, n) : n \in S}
    IN  IF T = S THEN S ELSE DependentsClosure(g, T)

\* the nodes from which t is reached along dependency edges, t included
Dependents(g, t) == DependentsClosure(g, {t})

\* the names a user can ask for
Askable == {NormalizeTarget(mode, typed) : typed \in TargetInputs}

\* C16: the reverse traversal from target takes each node from the queue at
\* most once, ends also when the reverse graph has cycles, and yields a map
\* whose keys are exactly the nodes that reach target along dependency edges
\* (target included), each with its parent list of the reverse graph; for a
\* target without entry in the reverse graph the loop yields {target: []}.
C16_ReverseTraversal ==
    /\ [](\A n \in DOMAIN dequeued : dequeued[n] <= 1)
    /\ [](TraversalDone =>
            /\ Keys(rev_deps) = Dependents(graph, target)
            /\ \A k \in Keys(rev_deps) :
                  Has(rev_graph, k) /\ rev_deps.val[k] = rev_graph.val[k])
    /\ [](ReverseBuilt =>
            \A t \in Askable :
               ~ Has(rev_graph, t) =>
                  RevTraversal(mode, rev_graph, graph, RevStart(t)).rev_deps
                    = DictOf(<< <<t, <<>> >> >>))
    /\ ((pc = "rev_bfs") ~> TraversalDone)

\* a traversal that met a cycle through target, reached three nodes or more
\* and left a node of the graph out; some name has no entry in the reverse
\* graph
C16_Witness ==
    /\ TraversalDone
    /\ Cardinality(Keys(rev_deps)) >= 3
    /\ Keys(rev_deps) # AllNodes(graph)
    /\ \E k \in Keys(rev_deps) : k # target /\ k \in Range(graph.val[target])
    /\ \A k \in Keys(rev_deps) : dequeued[k] = 1
    /\ \E t \in Askable : ~ Has(rev_graph, t)

(***************************************************************************)
(* Properties of generate_graphviz_code.                                    *)
(***************************************************************************)
\* the statements of one kind of a text, in order
StatementsOf(text, kind) == SelectSeq(text, LAMBDA s : s.kind = kind)

\* the names of the node statements of a text, in order
NodeNames(text) ==
    LET ns == StatementsOf(text, "node") IN [i \in DOMAIN ns |-> ns[i].a]

\* the pairs of the edge statements of a text, in order
EdgePairs(text) ==
    LET es == StatementsOf(text, "edge") IN [i \in DOMAIN es |-> <<es[i].a, es[i].b>>]

RECURSIVE NodesMet(_, _)
\* the nodes of g as a walk over its keys meets them: a key, then its list
NodesMet(g, ks) ==
    IF ks = <<>> THEN <<>>
    ELSE <<Head(ks)>> \o g.val[Head(ks)] \o NodesMet(g, Tail(ks))

RECURSIVE EdgesMet(_, _)
\* the pairs (node, dep) of g as a walk over its keys meets them
EdgesMet(g, ks) ==
    IF ks = <<>> THEN <<>>
    ELSE [i \in DOMAIN g.val[Head(ks)] |-> <<Head(ks), g.val[Head(ks)][i]>>]
         \o EdgesMet(g, Tail(ks))

RECURSIVE FirstOccurrences(_)
\* s without the repetitions of its elements
FirstOccurrences(s) ==
    IF s = <<>> THEN <<>>
    ELSE LET before == FirstOccurrences(SubSeq(s, 1, Len(s) - 1))
         IN  IF s[Len(s)] \in Range(before) THEN before
             ELSE Append(before, s[Len(s)])

\* the edge (node, dep) as the claim has it written
Written(pair, is_reverse) == IF is_reverse THEN <<pair[2], pair[1]>> ELSE pair

\* C17: generate_graphviz_code emits one node statement per distinct NodeId
\* of the graph (key or dependency) and one edge statement per distinct pair
\* (node, dep), without repetition over the whole graph and in the order
\* first met; with is_reverse the edge (node -> dep) is written
\* "dep" -> "node", otherwise "node" -> "dep".
C17_OneStatementEach ==
    \A i \in DOMAIN dot :
       LET g == graphs_to_export[i].g
           is_reverse == graphs_to_export[i].is_rev
           text == dot[i]
           met == EdgesMet(g, g.keys)
       IN  /\ text[1] = OpenStatement
           /\ text[Len(text)] = CloseStatement
           /\ \A j \in 2..(Len(text) - 1) : text[j].kind \in {"node", "edge"}
           /\ Range(NodeNames(text)) = AllNodes(g)
           /\ Len(NodeNames(text)) = Cardinality(AllNodes(g))
           /\ NodeNames(text) = FirstOccurrences(NodesMet(g, g.keys))
           /\ Len(EdgePairs(text)) = Cardinality(Range(met))
           /\ EdgePairs(text) =
                FirstOccurrences([j \in DOMAIN met |-> Written(met[j], is_reverse)])

\* both texts are there; the forward graph lists a dependency twice and the
\* reverse one has an edge whose opposite it does not have
C17_Witness ==
    /\ pc = "exit"
    /\ Len(dot) = 2
    /\ ~ graphs_to_export[1].is_rev
    /\ graphs_to_export[2].is_rev
    /\ \E k \in Keys(graphs_to_export[1].g) :
          Len(graphs_to_export[1].g.val[k]) = 2
          /\ Len(FirstOccurrences(graphs_to_export[1].g.val[k])) = 1
    /\ \E e \in Range(EdgePairs(dot[2])) : <<e[2], e[1]>> \notin Range(EdgePairs(dot[2]))
    /\ Len(EdgePairs(dot[2])) >= 2

(***************************************************************************)
(* The forward graph after it is built.                                     *)
(***************************************************************************)
\* C18: once build_real_graph (or read_test_repo) has returned, the graph is
\* only read: build_reverse_graph, the reverse traversal,
\* build_subgraph_from_node, print_tree_from_node and generate_graphviz_code
\* leave its keys and its dependency lists as they are - every step of main
\* does, and so does a call of the two functions that take the graph and
\* assign to a dict, in whatever state and for whatever node it is made.
C18_GraphReadOnly ==
    /\ [][graph' = graph]_vars
    /\ [](build_reverse_graph(graph).graph = graph)
    /\ [](\A t \in Askable \cup AllNodes(graph) :
            build_subgraph_from_node(t, graph, SubgraphMaxDepth).graph = graph)

\* main has run all five on a test graph with a cycle: both trees are
\* printed and both texts generated
C18_Witness ==
    /\ pc = "exit"
    /\ mode = "test"
    /\ Len(dot) = 2
    /\ Len(graphs_to_export) = 2
    /\ Keys(rev_deps) = AllNodes(graph)
    /\ Keys(subgraph) = AllNodes(graph)
    /\ Cardinality(AllNodes(graph)) >= 3

(***************************************************************************)
(* Properties of get_deps_from_wheel.                                       *)
(***************************************************************************)
\* the Requires-Dist lines of the METADATA of wheel_data
DeclaredLines ==
    IF wheel_data.zip /\ MetadataEntry(wheel_data.entries) # 0
    THEN SelectSeq(wheel_data.entries[MetadataEntry(wheel_data.entries)].lines,
                   LAMBDA l : StartsWith(l, RequiresDist))
    ELSE <<>>

\* the characters that end the leading name of a declaration: < > = ! ~ [ ] (
\* and the space
BareNameEnds == {"<", ">", "=", "!", "~", "[", "]", "(", " "}

\* the leading name of a declaration, lower-cased
BareName(line) == Lower(SplitHead(DepSpec(line), BareNameEnds))

\* C19: get_deps_from_wheel reduces the spec of each declaration to its
\* leading bare name, the text before the first of < > = ! ~ [ ] ( or space,
\* lower-cased: every name it returns is the bare name of a declaration, and
\* a declaration without condition contributes its bare name.
C19_BareName ==
    pc = "parsed" =>
        /\ \A n \in Range(wheel_deps) :
              \E i \in DOMAIN DeclaredLines : n = BareName(DeclaredLines[i])
        /\ \A i \in DOMAIN DeclaredLines :
              Condition(DeclaredLines[i]) = <<>> /\ BareName(DeclaredLines[i]) # <<>>
                 => BareName(DeclaredLines[i]) \in Range(wheel_deps)

\* the first position from i on that holds no whitespace, Len(s) + 1 if none
SkipSpaces(s, i) ==
    CHOOSE j \in i..(Len(s) + 1) :
        /\ j = Len(s) + 1 \/ s[j] \notin Whitespace
        /\ \A k \in i..(j - 1) : s[k] \in Whitespace

\* the clause  extra == "value"  (or with apostrophes) that starts at position
\* i of the condition s, if there is one
ExtraClauseAt(s, i) ==
    LET eq == SkipSpaces(s, i + 5)
        q  == SkipSpaces(s, eq + 2)
        closing == {e \in (q + 1)..Len(s) : s[e] = s[q]}
        ok == /\ i + 4 <= Len(s)
              /\ SubSeq(s, i, i + 4) = <<"e","x","t","r","a">>
              /\ eq + 1 <= Len(s)
              /\ s[eq] = "=" /\ s[eq + 1] = "="
              /\ q <= Len(s)
              /\ s[q] \in {"\"", "'"}
              /\ closing # {}
    IN  [ok |-> ok,
         value |-> IF ok
                   THEN SubSeq(s, q + 1, (CHOOSE e \in closing : \A f \in closing : e <= f) - 1)
                   ELSE <<>>]

\* the values the condition compares extra with
ExtraValues(s) ==
    {ExtraClauseAt(s, i).value : i \in {j \in DOMAIN s : ExtraClauseAt(s, j).ok}}

\* the values that stand for the default feature set: empty, default, main
DefaultExtras == { <<>>, <<"d","e","f","a","u","l","t">>, <<"m","a","i","n">> }

\* C20: get_deps_from_wheel leaves a declaration out exactly when its
\* condition, the text after the first ";", has an "extra equals" clause whose
\* value is not the empty, default or main marker; a declaration with no
\* condition, with a condition without extra clause or with extra == "" is
\* taken.  Stated for the archives with one declaration.
C20_ExcludedExactly ==
    pc = "parsed" /\ Len(DeclaredLines) = 1 /\ BareName(DeclaredLines[1]) # <<>> =>
        (wheel_deps = <<>>
           <=> \E v \in ExtraValues(Condition(DeclaredLines[1])) : v \notin DefaultExtras)

(***************************************************************************)
(* The list get_deps_from_wheel returns.                                    *)
(***************************************************************************)
\* the lines of the metadata entry that the loop does not skip: they start
\* with "Requires-Dist: " and are not gated by a non-default extra
CountedLines ==
    SelectSeq(DeclaredLines, LAMBDA l : ~ IsOptionalExtra(Condition(l)))

\* the name each of those lines yields, in the order of the lines
CountedNames == [i \in DOMAIN CountedLines |-> DepName(DepSpec(CountedLines[i]))]

NoDuplicates(s) == \A i, j \in DOMAIN s : s[i] = s[j] => i = j

\* C21: the list get_deps_from_wheel returns holds no empty name and no name
\* twice, and holds the names of the metadata entry in the order in which
\* each occurs first.
C21_NoEmptyNoDuplicate ==
    pc = "parsed" =>
        /\ \A i \in DOMAIN wheel_deps : wheel_deps[i] # <<>>
        /\ NoDuplicates(wheel_deps)
        /\ wheel_deps = FirstOccurrences(SelectSeq(CountedNames, LAMBDA n : n # <<>>))

\* a parsed entry with a repeated name, a line without name and two names kept
C21_Witness ==
    /\ pc = "parsed"
    /\ Len(wheel_deps) = 2
    /\ ~ NoDuplicates(CountedNames)
    /\ \E i \in DOMAIN CountedNames : CountedNames[i] = <<>>
    /\ \E i, j \in DOMAIN CountedNames :
          i < j /\ CountedNames[i] = wheel_deps[2] /\ CountedNames[j] = wheel_deps[1]

(***************************************************************************)
(* The artifact get_package_info selects.                                   *)
(***************************************************************************)
\* the version the request resolves to
ResolvedVersion ==
    IF pkg_request.version = NoVersion THEN pkg_response.info_version
    ELSE pkg_request.version

\* the files the registry lists for it, none when the version is absent
ReleaseFiles ==
    IF ResolvedVersion \in DOMAIN pkg_response.releases
    THEN pkg_response.releases[ResolvedVersion]
    ELSE <<>>

\* the first position of files whose filename ends in one of suffixes, 0 if none
FirstEndingIn(files, suffixes) ==
    LET hits == {i \in DOMAIN files :
                    \E s \in suffixes : EndsWith(files[i].filename, s)}
    IN  IF hits = {} THEN 0 ELSE CHOOSE i \in hits : \A j \in hits : i <= j

SdistSuffixes == { <<".","t","a","r",".","g","z">>, <<".","z","i","p">> }

\* C22: get_package_info selects the first file of the resolved version that
\* ends in .whl and, if there is none, the first that ends in .tar.gz or
\* .zip; it reports not-found only when the version is absent, has no file,
\* or has neither kind of file.
C22_WheelThenSdist ==
    pc = "resolved" /\ pkg_response.status = "ok" =>
        LET w == FirstEndingIn(ReleaseFiles, {WheelSuffix})
            s == FirstEndingIn(ReleaseFiles, SdistSuffixes)
            chosen == IF w # 0 THEN w ELSE s
        IN  IF chosen = 0 THEN ~ pkg_info.found
            ELSE pkg_info = [found |-> TRUE, url |-> ReleaseFiles[chosen].url,
                             version |-> ResolvedVersion]

(***************************************************************************)
(* The archive entry get_deps_from_wheel reads.                             *)
(***************************************************************************)
DescriptorSuffixes == { MetadataSuffix, <<"P","K","G","-","I","N","F","O">> }

\* the first position of entries whose name ends in one of suffixes, 0 if none
FirstNamed(entries, suffixes) ==
    LET hits == {i \in DOMAIN entries :
                    \E s \in suffixes : EndsWith(entries[i].name, s)}
    IN  IF hits = {} THEN 0 ELSE CHOOSE i \in hits : \A j \in hits : i <= j

\* C23: get_deps_from_wheel reads the dependencies from the first archive
\* entry whose name ends in METADATA or in PKG-INFO and from that entry only,
\* and returns the empty list when no entry matches or the bytes are no
\* archive.
C23_FirstDescriptor ==
    pc = "parsed" =>
        LET k == IF wheel_data.zip
                 THEN FirstNamed(wheel_data.entries, DescriptorSuffixes)
                 ELSE 0
        IN  wheel_deps = IF k = 0 THEN <<>>
                         ELSE ScanLines(wheel_data.entries[k].lines, <<>>)

(***************************************************************************)
(* The depths of the queue entries of build_real_graph.                     *)
(***************************************************************************)
\* the entries that the step put on the queue: what follows the old tail
AppendedEntries == Len(queue)..Len(queue')

\* C24: the depth counters are non-negative and grow by one along each edge
\* of the search: the entry of the root has depth 0, and every entry put on
\* the queue while a node dequeued at depth d is expanded has depth d + 1.
C24_DepthsAlongEdges ==
    /\ (queue # <<>> /\ queue[1].pkg = Lower(root_package) /\ queue[1].depth = 0)
    /\ [](\A i \in DOMAIN queue : queue[i].depth >= 0)
    /\ [][HeadIsExpanded =>
            /\ SubSeq(queue', 1, Len(queue) - 1) = Tail(queue)
            /\ \A i \in AppendedEntries : queue'[i].depth = Head(queue).depth + 1]_vars

\* the queue holds an entry of depth 2, put there by a node dequeued at depth 1
C24_Witness ==
    /\ pc = "build"
    /\ \E i \in DOMAIN queue : queue[i].depth = 2
    /\ \E c \in calls : c.depth = 1

\* the step takes the head off the queue and writes no entry: the `continue`
\* of the dequeue check
DropsHead ==
    /\ pc = "build"
    /\ queue # <<>>
    /\ queue' = Tail(queue)
    /\ graph' = graph
    /\ visited' = visited

\* C26: in every state of build_real_graph every entry of the queue has a
\* depth <= max_depth, so the test depth > max_depth never drops an entry: an
\* entry is dropped only because its NodeId is already visited.
C26_DroppedOnlyWhenVisited ==
    /\ [](pc = "build" => \A i \in DOMAIN queue : queue[i].depth \in 0..max_depth)
    /\ [][DropsHead =>
            Head(queue).pkg \in visited /\ ~ (Head(queue).depth > max_depth)]_vars

\* a build has returned that dropped an entry of depth max_depth and
\* expanded a node of that depth that has dependencies
C26_Witness ==
    /\ pc = "built"
    /\ \E e \in discarded : e.depth = max_depth
    /\ \E n \in Keys(graph) :
          max_depth \in ExpandDepths(n) /\ graph.val[n] # <<>>

(***************************************************************************)
(* The graph build_real_graph returns against the distances from the root.  *)
(***************************************************************************)
RECURSIVE Within(_)
\* the NodeIds at most k hops from the root along the recorded lists
Within(k) ==
    IF k = 0 THEN {RootId}
    ELSE LET near == Within(k - 1)
         IN  near \cup UNION {Range(graph.val[n]) : n \in near \cap Keys(graph)}

\* the least number of hops from the root to n, for n within max_depth + 1 hops
Dist(n) == CHOOSE k \in 0..(max_depth + 1) :
               n \in Within(k) /\ \A j \in 0..(k - 1) : n \notin Within(j)

\* C27: when build_real_graph returns, the keys of the graph are the NodeIds
\* whose least hop distance from the root along the recorded lists is at most
\* max_depth, each key was expanded at the depth equal to that distance, and
\* every dependency of a key expanded at a depth < max_depth is a key.
C27_KeysAreWithinDepth ==
    pc = "built" =>
        /\ Keys(graph) = Within(max_depth)
        /\ \A n \in Keys(graph) : ExpandDepths(n) = {Dist(n)}
        /\ \A n \in Keys(graph) :
              (\E d \in ExpandDepths(n) : d < max_depth)
                 => Range(graph.val[n]) \subseteq Keys(graph)

\* a build has returned with a key that is a dependency of the root and of
\* another dependency of the root, and with a dependency max_depth + 1 hops
\* from the root, which is no key
C27_Witness ==
    /\ pc = "built"
    /\ \E n, m \in Keys(graph) :
          /\ n # m /\ Dist(n) = 1 /\ Dist(m) = 1
          /\ n \in Range(graph.val[m])
    /\ \E n \in AllNodes(graph) \ Keys(graph) : n \in Within(max_depth + 1)

(***************************************************************************)
(* The reverse traversal of main on the graphs build_real_graph returns.    *)
(***************************************************************************)
\* lines 283-292 (m = "real") and 244-253 (m = "test"): rev_deps after the
\* loop, for the graph g and the target t
ReverseSubgraph(m, g, t) ==
    RevTraversal(m, build_reverse_graph(g).rev, g, RevStart(t)).rev_deps

\* the NodeIds that occur in a dependency list and are no key
BoundaryNodes(g) == AllNodes(g) \ Keys(g)

\* C25 as stated: on a graph returned by build_real_graph that has boundary
\* nodes, the traversal that keeps only the parents that are keys and the
\* traversal that keeps all parents differ for some target.
C25_Original ==
    pc = "built" /\ BoundaryNodes(graph) # {} =>
        \E t \in Keys(graph) :
            ReverseSubgraph("real", graph, t) # ReverseSubgraph("test", graph, t)

\* C25 (amended): on every graph returned by build_real_graph, with boundary
\* nodes or without, every parent list of the reverse graph holds only keys
\* of the graph, so the filter removes nothing and both traversals give the
\* same map for every target that is a key.
C25_FilterRemovesNothing ==
    pc = "built" =>
        /\ \A k \in Keys(build_reverse_graph(graph).rev) :
              Range(build_reverse_graph(graph).rev.val[k]) \subseteq Keys(graph)
        /\ \A t \in Keys(graph) :
              ReverseSubgraph("real", graph, t) = ReverseSubgraph("test", graph, t)

\* a build has returned a graph with a boundary node whose parent has a
\* parent of its own
C25_Witness ==
    /\ pc = "built"
    /\ \E b \in BoundaryNodes(graph) : \E t \in ParentsOf(graph, b) :
          Cardinality(Keys(ReverseSubgraph("real", graph, t))) >= 2

\* C28: for every graph returned by build_real_graph and every target that
\* is a key, the reverse-dependency subgraph of the target has the root of
\* the build among its keys, every key other than the root being in the
\* dependency list of some other key.
C28_RootInReverseSubgraph ==
    pc = "built" =>
        /\ \A k \in Keys(graph) \ {RootId} :
              \E m \in Keys(graph) \ {k} : k \in Range(graph.val[m])
        /\ \A t \in Keys(graph) : Has(ReverseSubgraph("real", graph, t), RootId)

\* a build has returned a key two hops from the root that no dependency list
\* of the root holds; its reverse subgraph has three keys or more
C28_Witness ==
    /\ pc = "built"
    /\ \E t \in Keys(graph) :
          /\ t \notin Range(graph.val[RootId]) \cup {RootId}
          /\ Cardinality(Keys(ReverseSubgraph("real", graph, t))) >= 3
          /\ Has(ReverseSubgraph("real", graph, t), RootId)

====
